---- MODULE Spec2Model ----
(***************************************************************************)
(* Orbit: the request pipeline of a source (update / sync / pull) on top   *)
(* of the transform log, and the MemorySource handlers that apply          *)
(* transforms to the record cache.                                         *)
(*                                                                         *)
(* A "call" is one invocation of a public request method.  Its public part *)
(* (await activated, log check, enqueue) and the processing of its queued  *)
(* task (__update__ / __pull__ / __sync__) are separate steps, one step    *)
(* per span between two awaits of the code.  What the caller and the       *)
(* listeners of one call observed is kept in `settled` for the step in     *)
(* which the call's promise settles.                                       *)
(***************************************************************************)
EXTENDS Integers, Sequences, FiniteSets, TLC

----------------------------------------------------------------------------
(* Bounds of the model.                                                    *)

MaxCalls == 2          \* public request calls (update / sync / pull)
NumTransforms == 3     \* distinct transform ids a caller can present
NumBefore == 2         \* listeners registered on each before<Kind> event
NumObs == 2            \* listeners registered on each observational event
MaxPull == 2           \* transforms one _pull response can carry
MaxDirect == 1         \* transformed() calls made outside the request queue
NumForkTransforms == 4 \* distinct transforms applied to a parent and its fork
MaxOps == 6            \* operations performed on a parent and its fork
MaxMerges == 1         \* merges of the fork into its parent
MaxLen == 3            \* operations in the sequence of one cache trial
MaxSteps == 3          \* calls made on one record cache
MaxIds == 2            \* identities or relationships given to one call
MaxLimit == 2          \* largest request limit set on the JSON:API source
MaxUpdates == 2        \* updates called on the JSON:API source

CallIds == 1..MaxCalls
TransformIds == 1..NumTransforms

----------------------------------------------------------------------------
(* Records, operations and the record cache.                               *)

NoFields == [x \in {} |-> x]

Jupiter == [type |-> "planet", id |-> "jupiter"]

DeclaredTypes == {"planet", "moon"}

RecordOf(identity, attrs) ==
  [type |-> identity.type, id |-> identity.id, keys |-> NoFields,
   attributes |-> attrs, relationships |-> NoFields]

cloneRecordIdentity(identity) == RecordOf(identity, NoFields)

IdentityOf(record) == [type |-> record.type, id |-> record.id]

\* deepSet(record, ['attributes', attribute], value)
SetAttribute(record, attribute, value) ==
  [record EXCEPT !.attributes =
     [a \in (DOMAIN record.attributes) \cup {attribute} |->
        IF a = attribute THEN value ELSE record.attributes[a]]]

HasRecord(records, identity) == identity \in DOMAIN records

setRecordSync(records, record) ==
  [i \in (DOMAIN records) \cup {IdentityOf(record)} |->
     IF i = IdentityOf(record) THEN record ELSE records[i]]

removeRecordSync(records, identity) ==
  [i \in (DOMAIN records) \ {identity} |-> records[i]]

\* The operations a transform can carry.
AddRecordOp(record) == [op |-> "addRecord", record |-> record]
RemoveRecordOp(identity) == [op |-> "removeRecord", record |-> identity]
ReplaceAttributeOp(identity, attribute, value) ==
  [op |-> "replaceAttribute", record |-> identity,
   attribute |-> attribute, value |-> value]

UpdateRecordOp(record) == [op |-> "updateRecord", record |-> record]
ReplaceKeyOp(identity, key, value) ==
  [op |-> "replaceKey", record |-> identity, key |-> key, value |-> value]
AddToRelatedRecordsOp(identity, relationship, relatedRecord) ==
  [op |-> "addToRelatedRecords", record |-> identity,
   relationship |-> relationship, relatedRecord |-> relatedRecord]
RemoveFromRelatedRecordsOp(identity, relationship, relatedRecord) ==
  [op |-> "removeFromRelatedRecords", record |-> identity,
   relationship |-> relationship, relatedRecord |-> relatedRecord]
ReplaceRelatedRecordsOp(identity, relationship, relatedRecords) ==
  [op |-> "replaceRelatedRecords", record |-> identity,
   relationship |-> relationship, relatedRecords |-> relatedRecords]
ReplaceRelatedRecordOp(identity, relationship, relatedRecord) ==
  [op |-> "replaceRelatedRecord", record |-> identity,
   relationship |-> relationship, relatedRecord |-> relatedRecord]

\* The related record of a to-one relationship that is known to be empty
\* (data: null).
NullIdentity == [type |-> "null", id |-> "null"]

\* Variant of CurrentOrShell: the operators start from a shell even when a
\* record exists.
ShellOnly(records, identity) == cloneRecordIdentity(identity)

\* const currentRecord = cache.getRecordSync(op.record);
\* record = currentRecord ? clone(currentRecord) : cloneRecordIdentity(...)
CurrentOrShell(records, identity) ==
  IF HasRecord(records, identity) THEN records[identity]
  ELSE cloneRecordIdentity(identity)

\* deepSet(record, ['keys', key], value)
SetKey(record, key, value) ==
  [record EXCEPT !.keys =
     [k \in (DOMAIN record.keys) \cup {key} |->
        IF k = key THEN value ELSE record.keys[k]]]

\* deepSet(record, ['relationships', relationship, 'data'], data)
SetRelated(record, relationship, data) ==
  [record EXCEPT !.relationships =
     [r \in (DOMAIN record.relationships) \cup {relationship} |->
        IF r = relationship THEN data ELSE record.relationships[r]]]

HasRelated(record, relationship) ==
  relationship \in DOMAIN record.relationships

\* deepGet(record, ['relationships', relationship, 'data']) || []
RelatedRecords(record, relationship) ==
  IF HasRelated(record, relationship)
    THEN record.relationships[relationship] ELSE <<>>

recordsInclude(identities, identity) ==
  \E i \in 1..Len(identities) : identities[i] = identity

\* relatedRecords.filter((r) => !equalRecordIdentities(r, relatedRecord))
WithoutIdentity(identities, identity) ==
  SelectSeq(identities, LAMBDA r : r # identity)

\* Variant of MergeFields: the current value of a member is kept.
CurrentWins(current, updates) ==
  [k \in (DOMAIN current) \cup (DOMAIN updates) |->
     IF k \in DOMAIN current THEN current[k] ELSE updates[k]]

\* One member of two records merged, the updates over the current.
MergeFields(current, updates) ==
  [k \in (DOMAIN current) \cup (DOMAIN updates) |->
     IF k \in DOMAIN updates THEN updates[k] ELSE current[k]]

\* mergeRecords(current, updates) for an existing current record.
mergeRecords(current, updates) ==
  [type |-> current.type, id |-> current.id,
   keys |-> MergeFields(current.keys, updates.keys),
   attributes |-> MergeFields(current.attributes, updates.attributes),
   relationships |-> MergeFields(current.relationships,
                                 updates.relationships)]

\* The record updateRecord stores: mergeRecords(currentRecord || null, record).
MergedRecord(records, record) ==
  IF HasRecord(records, IdentityOf(record))
    THEN mergeRecords(records[IdentityOf(record)], record)
    ELSE record

\* Variant of AddedToRelated: the related identity is appended whether or
\* not the relationship holds it already.
AddedToRelatedAgain(records, o) ==
  setRecordSync(records,
    SetRelated(CurrentOrShell(records, o.record), o.relationship,
               Append(RelatedRecords(CurrentOrShell(records, o.record),
                                     o.relationship),
                      o.relatedRecord)))

\* addToRelatedRecords: the record is rewritten only when the relationship
\* does not include the related identity yet.
AddedToRelated(records, o) ==
  IF recordsInclude(RelatedRecords(CurrentOrShell(records, o.record),
                                   o.relationship),
                    o.relatedRecord)
    THEN records
    ELSE setRecordSync(records,
           SetRelated(CurrentOrShell(records, o.record), o.relationship,
                      Append(RelatedRecords(CurrentOrShell(records, o.record),
                                            o.relationship),
                             o.relatedRecord)))

\* Variant of Unrelated: a record that does not exist is created as a shell
\* with an empty relationship.
UnrelatedShell(records, o) ==
  setRecordSync(records,
    SetRelated(CurrentOrShell(records, o.record), o.relationship,
               WithoutIdentity(
                 RelatedRecords(CurrentOrShell(records, o.record),
                                o.relationship),
                 o.relatedRecord)))

\* removeFromRelatedRecords: only an existing record that has the
\* relationship is rewritten.
Unrelated(records, o) ==
  IF HasRecord(records, o.record)
     /\ HasRelated(records[o.record], o.relationship)
    THEN setRecordSync(records,
           SetRelated(records[o.record], o.relationship,
                      WithoutIdentity(records[o.record].relationships
                                        [o.relationship],
                                      o.relatedRecord)))
    ELSE records

\* deepSet returns false, and replaceRelatedRecord writes nothing, when the
\* relationship already holds the very value (null over null).
SameRelated(records, o) ==
  /\ HasRecord(records, o.record)
  /\ HasRelated(records[o.record], o.relationship)
  /\ o.relatedRecord = NullIdentity
  /\ records[o.record].relationships[o.relationship] = NullIdentity

\* SyncTransformOperators: the effect of one operation on the records.
ApplyOperation(records, o) ==
  CASE o.op = "addRecord" -> setRecordSync(records, o.record)
    [] o.op = "updateRecord" ->
         setRecordSync(records, MergedRecord(records, o.record))
    [] o.op = "removeRecord" -> removeRecordSync(records, o.record)
    [] o.op = "replaceKey" ->
         setRecordSync(records,
           SetKey(CurrentOrShell(records, o.record), o.key, o.value))
    [] o.op = "replaceAttribute" ->
         setRecordSync(records,
           SetAttribute(IF HasRecord(records, o.record)
                          THEN records[o.record]
                          ELSE cloneRecordIdentity(o.record),
                        o.attribute, o.value))
    [] o.op = "addToRelatedRecords" -> AddedToRelated(records, o)
    [] o.op = "removeFromRelatedRecords" -> Unrelated(records, o)
    [] o.op = "replaceRelatedRecords" ->
         setRecordSync(records,
           SetRelated(CurrentOrShell(records, o.record), o.relationship,
                      o.relatedRecords))
    [] o.op = "replaceRelatedRecord" ->
         IF SameRelated(records, o) THEN records
         ELSE setRecordSync(records,
                SetRelated(CurrentOrShell(records, o.record), o.relationship,
                           o.relatedRecord))

RECURSIVE ApplyOperations(_, _)
ApplyOperations(records, ops) ==
  IF ops = <<>> THEN records
  ELSE ApplyOperations(ApplyOperation(records, Head(ops)), Tail(ops))

\* The stored value of an attribute path that was absent before a write.
Undefined == "undefined"

\* The inverse of one operation against the records it is about to change.
InverseOperation(records, o) ==
  CASE o.op = "addRecord" -> <<RemoveRecordOp(IdentityOf(o.record))>>
    [] o.op = "removeRecord" ->
         IF HasRecord(records, o.record)
           THEN <<AddRecordOp(records[o.record])>> ELSE <<>>
    [] o.op = "replaceAttribute" ->
         IF HasRecord(records, o.record)
            /\ o.attribute \in DOMAIN records[o.record].attributes
           THEN <<ReplaceAttributeOp(o.record, o.attribute,
                                     records[o.record].attributes[o.attribute])>>
           ELSE <<ReplaceAttributeOp(o.record, o.attribute, Undefined)>>

\* Inverse operations of a sequence, newest first.
RECURSIVE InverseOperations(_, _)
InverseOperations(records, ops) ==
  IF ops = <<>> THEN <<>>
  ELSE InverseOperations(ApplyOperation(records, Head(ops)), Tail(ops))
         \o InverseOperation(records, Head(ops))

\* An operation on a type the schema does not declare raises SchemaError.
OperationAllowed(o) == o.record.type \in DeclaredTypes

\* cache.update(transform, {fullResponse: true}): either every operation is
\* applied, or the update throws and the records are left as they were.
CacheUpdateThrows(ops) == \E i \in 1..Len(ops) : ~OperationAllowed(ops[i])

CacheUpdate(records, ops) ==
  [records |-> ApplyOperations(records, ops),
   inverseOperations |-> InverseOperations(records, ops)]

\* The operations carried by the transform with a given id.
TransformOps(t) ==
  CASE t % 4 = 1 ->
         <<AddRecordOp(RecordOf(Jupiter, [a \in {"name"} |-> "Jupiter"]))>>
    [] t % 4 = 2 ->
         <<ReplaceAttributeOp(Jupiter, "name", "Zeus"),
           AddRecordOp(RecordOf([type |-> "comet", id |-> "halley"], NoFields))>>
    [] t % 4 = 3 -> <<ReplaceAttributeOp(Jupiter, "name", "Jove")>>
    [] t % 4 = 0 -> <<RemoveRecordOp(Jupiter)>>

----------------------------------------------------------------------------
(* The transform log: an ordered sequence of entries.  Every entry keeps,  *)
(* next to the transform id, the kind of request that appended it          *)
(* ("direct": a transformed() call made outside the request queue).        *)

LogIds(l) == [i \in 1..Len(l) |-> l[i].id]

Contains(l, t) == \E i \in 1..Len(l) : l[i].id = t

LogHead(l) == IF l = <<>> THEN 0 ELSE l[Len(l)].id

LogAppend(l, t, by) == Append(l, [id |-> t, by |-> by])

----------------------------------------------------------------------------
(* Values a public promise resolves with.                                  *)

ValUndefined == [tag |-> "undefined"]
ValData == [tag |-> "data"]
ValList(items) == [tag |-> "list", items |-> items]
ValResponse(data, trs) == [tag |-> "response", data |-> data, transforms |-> trs]

\* const response = {}: a full response with no member set.
EmptyResponse == ValResponse(ValUndefined, ValUndefined)

----------------------------------------------------------------------------
(* State of one source.                                                    *)

VARIABLES
  activated,          \* the source's activated promise has resolved
  log,                \* transformLog
  records,            \* the cache's records, identity -> record
  transforms,         \* ids with a stored transform (_transforms)
  transformInverses,  \* id -> stored inverse operations (_transformInverses)
  ncalls,             \* number of public request calls made so far
  waiting,            \* calls suspended on `await this.activated`, in order
  queue,              \* the request queue: calls whose task is waiting
  cur,                \* the call whose task is being processed
  phase,              \* position of the task being processed
  bi,                 \* index of the before<Kind> listener that is pending
  pending,            \* transforms that transformed() still has to record
  resp,               \* the full response returned by the protected handler
  err,                \* the error caught by the task being processed
  seen,               \* what the task being processed did and emitted so far
  started,            \* calls in the order their before<Kind> emission began
  active,             \* calls whose task has begun and not ended
  direct,             \* the transformed() call made outside the queue
  transformEvents,    \* id -> number of transform events emitted for it
  upd,                \* id -> what the update calls carrying it did so far
  settled,            \* the call whose promise settled in the last step
  sources,            \* a parent MemorySource and its fork
  forked,             \* parent.fork() has been called
  forkBase,           \* the parent's cache contents at the fork point
  alone,              \* the parent as it is when only its own operations run
  nops,               \* operations performed on the parent and the fork
  nmerges,            \* merges performed
  last,               \* what the operation of the last step did
  trial,              \* one trial of the cache's operators on drawn inputs
  store,              \* a record cache with its key map and inverse index
  remote              \* one update of a JSON:API source

vars == <<activated, log, records, transforms, transformInverses, ncalls,
          waiting, queue, cur, phase, bi, pending, resp, err, seen,
          started, active, direct, transformEvents, upd, settled,
          sources, forked, forkBase, alone, nops, nmerges, last, trial,
          store, remote>>

\* The request pipeline of one source.
requestVars == <<activated, log, records, transforms, transformInverses,
                 ncalls, waiting, queue, cur, phase, bi, pending, resp, err,
                 seen, started, active, direct, transformEvents, upd, settled>>

\* A parent source and its fork.
forkVars == <<sources, forked, forkBase, alone, nops, nmerges, last>>

cacheVars == <<records, transforms, transformInverses>>
taskVars == <<cur, phase, bi, pending, resp, err, seen>>

NoError == [src |-> "none", l |-> 0]
ListenerError(i) == [src |-> "before", l |-> i]
HandlerError == [src |-> "handler", l |-> 0]
AppendError == [src |-> "append", l |-> 0]

\* One call: n is its position in the order of the calls.
Request(n, kind, t, full) == [n |-> n, kind |-> kind, tid |-> t, full |-> full]
NoRequest == Request(0, "none", 0, FALSE)

\* Nothing done, nothing emitted.
NothingSeen ==
  [evs |-> <<>>, invoked |-> FALSE, applied |-> FALSE, appended |-> <<>>,
   obsThrew |-> FALSE, thrown |-> NoError, response |-> EmptyResponse]

NotSettled ==
  [req |-> NoRequest, outcome |-> "none", path |-> "none",
   res |-> ValUndefined, err |-> NoError, seen |-> NothingSeen]

NoUpdates == [settled |-> 0, failed |-> 0, invoked |-> 0, applied |-> 0]

\* A MemorySource after construction: empty log, cache and history.
\* forkPoint 0 stands for undefined.
NewSource(recs, forkPoint) ==
  [log |-> <<>>, records |-> recs, transforms |-> NoFields,
   inverses |-> NoFields, forkPoint |-> forkPoint]

NothingDone == [op |-> "none"]

ForkIdle ==
  /\ sources = [parent |-> NewSource(NoFields, 0),
                fork |-> NewSource(NoFields, 0)]
  /\ forked = FALSE
  /\ forkBase = NoFields
  /\ alone = NewSource(NoFields, 0)
  /\ nops = 0
  /\ nmerges = 0
  /\ last = NothingDone

RequestsIdle ==
  /\ activated = FALSE
  /\ log = <<>>
  /\ records = NoFields
  /\ transforms = {}
  /\ transformInverses = NoFields
  /\ ncalls = 0
  /\ waiting = <<>>
  /\ queue = <<>>
  /\ cur = NoRequest
  /\ phase = "idle"
  /\ bi = 0
  /\ pending = <<>>
  /\ resp = EmptyResponse
  /\ err = NoError
  /\ seen = NothingSeen
  /\ started = <<>>
  /\ active = {}
  /\ direct = [n |-> 0, pc |-> "idle", t |-> 0]
  /\ transformEvents = [t \in TransformIds |-> 0]
  /\ upd = [t \in TransformIds |-> NoUpdates]
  /\ settled = NotSettled

\* No trial of the cache's operators is under way.
NoTrial == [stage |-> "none"]

\* A cache after construction: no records, empty key map, empty index.
NewStore ==
  [records |-> NoFields, keyMap |-> NoFields, inverse |-> NoFields,
   steps |-> 0, did |-> NothingDone]

StoreIdle == store = NewStore

\* No update of a JSON:API source is under way.
\* A JSON:API source on which no update has been called: no request limit is
\* set (0), nothing is fetched, emitted or logged.
NewRemote ==
  [stage |-> "idle", maxRequestsPerTransform |-> 0, maxRequests |-> 0,
   operations |-> <<>>, responses |-> <<>>, fetched |-> <<>>,
   events |-> <<>>, logged |-> <<>>, outcome |-> "none", data |-> <<>>,
   late |-> "none", history |-> <<>>]

RemoteIdle == remote = NewRemote

Init == RequestsIdle /\ ForkIdle /\ trial = NoTrial /\ StoreIdle /\ RemoteIdle

\* No promise settles in this step.
NoneSettles == settled' = NotSettled /\ UNCHANGED <<forkVars, trial, store, remote>>

\* Source activation completes.
Activate ==
  /\ ~activated
  /\ activated' = TRUE
  /\ NoneSettles
  /\ UNCHANGED <<log, cacheVars, ncalls, waiting, queue, taskVars,
                 started, active, direct, transformEvents, upd>>

\* A caller invokes update / sync / pull; the method suspends on
\* `await this.activated`.
Call(kind, t, full) ==
  /\ ncalls < MaxCalls
  /\ ncalls' = ncalls + 1
  /\ waiting' = Append(waiting, Request(ncalls + 1, kind, t, full))
  /\ NoneSettles
  /\ UNCHANGED <<activated, log, cacheVars, queue, taskVars, started, active,
                 direct, transformEvents, upd>>

\* Variant of Resumes: the method does not await activation.
ResumesUnawaited(r) ==
  /\ waiting # <<>>
  /\ r = Head(waiting)
  /\ waiting' = Tail(waiting)

\* Continuations of `await this.activated` run in the order of the calls.
Resumes(r) ==
  /\ activated
  /\ waiting # <<>>
  /\ r = Head(waiting)
  /\ waiting' = Tail(waiting)

\* Variant of Enqueue: the request is put at the front of the queue.
EnqueueFirst(r) ==
  /\ queue' = <<r>> \o queue
  /\ NoneSettles
  /\ UNCHANGED upd

\* this._enqueueRequest(kind, request)
Enqueue(r) ==
  /\ queue' = Append(queue, r)
  /\ NoneSettles
  /\ UNCHANGED upd

\* What update() returns for a response of the queued task.
UpdateResult(full, response) == IF full THEN response ELSE response.data

\* What update() returns when it finds the id in the log itself.
UpdateLoggedResult(full) ==
  IF full THEN ValResponse(ValUndefined, ValList(<<>>)) ELSE ValList(<<>>)

\* What __update__ returns when it finds the id in the log.
UpdateLoggedResponse == ValResponse(ValUndefined, ValList(<<>>))

\* What the update calls carrying one id did, after one more has settled.
Counted(u, outcome, s) ==
  [settled |-> u.settled + 1,
   failed |-> u.failed + (IF outcome = "rejected" THEN 1 ELSE 0),
   invoked |-> u.invoked + (IF s.invoked THEN 1 ELSE 0),
   applied |-> u.applied + (IF s.applied THEN 1 ELSE 0)]

\* The public promise of call r settles.
Settles(r, outcome, path, res, e, s) ==
  /\ settled' = [req |-> r, outcome |-> outcome, path |-> path, res |-> res,
                 err |-> e, seen |-> s]
  /\ upd' = IF r.kind = "update"
              THEN [upd EXCEPT ![r.tid] = Counted(@, outcome, s)]
              ELSE upd
  /\ UNCHANGED <<forkVars, trial, store, remote>>

\* update(): after activation, build the transform, check the log, enqueue.
UpdateResume(r) ==
  /\ Resumes(r)
  /\ r.kind = "update"
  /\ IF Contains(log, r.tid)
       THEN /\ Settles(r, "resolved", "logged", UpdateLoggedResult(r.full),
                       NoError, NothingSeen)
            /\ UNCHANGED queue
       ELSE Enqueue(r)
  /\ UNCHANGED <<activated, log, cacheVars, ncalls, taskVars, started, active,
                 direct, transformEvents>>

\* pull(): after activation, build the query and enqueue.
PullResume(r) ==
  /\ Resumes(r)
  /\ r.kind = "pull"
  /\ Enqueue(r)
  /\ UNCHANGED <<activated, log, cacheVars, ncalls, taskVars, started, active,
                 direct, transformEvents>>

\* sync(): after activation, check the log, enqueue.
SyncResume(r) ==
  /\ Resumes(r)
  /\ r.kind = "sync"
  /\ IF Contains(log, r.tid)
       THEN /\ Settles(r, "resolved", "logged", ValUndefined, NoError,
                       NothingSeen)
            /\ UNCHANGED queue
       ELSE Enqueue(r)
  /\ UNCHANGED <<activated, log, cacheVars, ncalls, taskVars, started, active,
                 direct, transformEvents>>

----------------------------------------------------------------------------
(* Processing of the queued task: __update__ / __pull__ / __sync__.        *)

Ev(name, t, ran) == [ev |-> name, t |-> t, ran |-> ran]

\* The queue hands its first task to the performer when none is in process.
Dispatched(r) ==
  /\ cur = NoRequest
  /\ queue # <<>>
  /\ r = Head(queue)
  /\ queue' = Tail(queue)

\* fulfillInSeries(this, 'before<Kind>', ...) invokes the first listener.
BeginBefore(r) ==
  /\ cur' = r
  /\ phase' = "before"
  /\ bi' = 1
  /\ pending' = <<>>
  /\ resp' = EmptyResponse
  /\ err' = NoError
  /\ seen' = [NothingSeen EXCEPT !.evs = <<Ev("before", 1, 1)>>]
  /\ started' = Append(started, r.n)
  /\ active' = active \cup {r.n}
  /\ NoneSettles
  /\ UNCHANGED upd

\* Variant of ProcessUpdate: __update__ without its log check.
ProcessUpdateUnchecked(r) ==
  /\ Dispatched(r)
  /\ r.kind = "update"
  /\ BeginBefore(r)
  /\ UNCHANGED <<activated, log, cacheVars, ncalls, waiting, direct,
                 transformEvents>>

\* __update__: the log check, then the beforeUpdate emission.
ProcessUpdate(r) ==
  /\ Dispatched(r)
  /\ r.kind = "update"
  /\ IF Contains(log, r.tid)
       THEN /\ Settles(r, "resolved", "skipped",
                       UpdateResult(r.full, UpdateLoggedResponse), NoError,
                       NothingSeen)
            /\ UNCHANGED <<taskVars, started, active>>
       ELSE BeginBefore(r)
  /\ UNCHANGED <<activated, log, cacheVars, ncalls, waiting, direct,
                 transformEvents>>

\* __pull__: the beforePull emission.
ProcessPull(r) ==
  /\ Dispatched(r)
  /\ r.kind = "pull"
  /\ BeginBefore(r)
  /\ UNCHANGED <<activated, log, cacheVars, ncalls, waiting, direct,
                 transformEvents>>

\* __sync__: the log check, then the beforeSync emission.
ProcessSync(r) ==
  /\ Dispatched(r)
  /\ r.kind = "sync"
  /\ IF Contains(log, r.tid)
       THEN /\ Settles(r, "resolved", "skipped", ValUndefined, NoError,
                       NothingSeen)
            /\ UNCHANGED <<taskVars, started, active>>
       ELSE BeginBefore(r)
  /\ UNCHANGED <<activated, log, cacheVars, ncalls, waiting, direct,
                 transformEvents>>

\* Variant of BeforeFulfilled: the emission resolves with the first listener
\* that fulfills.
BeforeFulfilledFirst ==
  /\ phase = "before"
  /\ phase' = "handler"
  /\ NoneSettles
  /\ UNCHANGED <<activated, log, cacheVars, ncalls, waiting, queue, cur, bi,
                 pending, resp, err, seen, started, active, direct,
                 transformEvents, upd>>

\* The pending before<Kind> listener fulfills: the next listener is invoked,
\* or, after the last one, the emission resolves.
BeforeFulfilled ==
  /\ phase = "before"
  /\ IF bi < NumBefore
       THEN /\ bi' = bi + 1
            /\ seen' = [seen EXCEPT !.evs = Append(@, Ev("before", bi + 1, 1))]
            /\ UNCHANGED phase
       ELSE /\ phase' = "handler"
            /\ UNCHANGED <<bi, seen>>
  /\ NoneSettles
  /\ UNCHANGED <<activated, log, cacheVars, ncalls, waiting, queue, cur,
                 pending, resp, err, started, active, direct, transformEvents,
                 upd>>

\* Variant of BeforeRejected: the rejection does not stop the task.
BeforeRejectedContinues ==
  /\ phase = "before"
  /\ phase' = "handler"
  /\ err' = ListenerError(bi)
  /\ seen' = [seen EXCEPT !.thrown = ListenerError(bi)]
  /\ NoneSettles
  /\ UNCHANGED <<activated, log, cacheVars, ncalls, waiting, queue, cur, bi,
                 pending, resp, started, active, direct, transformEvents,
                 upd>>

\* The pending before<Kind> listener rejects: the emission rejects.
BeforeRejected ==
  /\ phase = "before"
  /\ phase' = "fail"
  /\ err' = ListenerError(bi)
  /\ seen' = [seen EXCEPT !.thrown = ListenerError(bi)]
  /\ NoneSettles
  /\ UNCHANGED <<activated, log, cacheVars, ncalls, waiting, queue, cur, bi,
                 pending, resp, started, active, direct, transformEvents,
                 upd>>

\* MemorySource._applyTransform
ApplyTransform(t) ==
  LET r == CacheUpdate(records, TransformOps(t)) IN
  /\ records' = r.records
  /\ transforms' = transforms \cup {t}
  /\ transformInverses' =
       [i \in (DOMAIN transformInverses) \cup {t} |->
          IF i = t THEN r.inverseOperations ELSE transformInverses[i]]

\* Variant of Thrown: the error leaves the task without the fail event.
ThrownUncaught(e) ==
  /\ phase' = "failed"
  /\ err' = e
  /\ seen' = [seen EXCEPT !.invoked = TRUE, !.thrown = e]
  /\ UNCHANGED <<pending, resp>>

\* The handler threw: control passes to the catch clause of the task.
Thrown(e) ==
  /\ phase' = "fail"
  /\ err' = e
  /\ seen' = [seen EXCEPT !.invoked = TRUE, !.thrown = e]
  /\ UNCHANGED <<pending, resp>>

\* Variant of AfterHandler: the response's transforms are not recorded.
AfterHandlerUnrecorded(response) ==
  /\ resp' = response
  /\ phase' = "post"
  /\ pending' = <<>>
  /\ UNCHANGED err

\* if (fullResponse.transforms?.length > 0) await this.transformed(...)
AfterHandler(response) ==
  /\ resp' = response
  /\ IF response.transforms # ValUndefined /\ Len(response.transforms.items) > 0
       THEN phase' = "transformed" /\ pending' = response.transforms.items
       ELSE phase' = "post" /\ pending' = <<>>
  /\ UNCHANGED err

\* The handler returned `response`, having applied a transform or not.
Returned(response, applied) ==
  seen' = [seen EXCEPT !.invoked = TRUE, !.applied = applied,
                       !.response = response]

\* Variant of UpdateResponse: _update does not report the transform.
UpdateResponseUnreported(t) == ValResponse(ValData, ValUndefined)

\* The response of _update after it has applied transform t.
UpdateResponse(t) == ValResponse(ValData, ValList(<<t>>))

\* _update of the MemorySource, called by __update__.
UpdateHandler ==
  /\ phase = "handler"
  /\ cur.kind = "update"
  /\ IF Contains(log, cur.tid)
       THEN /\ AfterHandler(EmptyResponse)
            /\ Returned(EmptyResponse, FALSE)
            /\ UNCHANGED cacheVars
       ELSE IF CacheUpdateThrows(TransformOps(cur.tid))
         THEN /\ Thrown(HandlerError)
              /\ UNCHANGED cacheVars
         ELSE /\ ApplyTransform(cur.tid)
              /\ AfterHandler(UpdateResponse(cur.tid))
              /\ Returned(UpdateResponse(cur.tid), TRUE)
  /\ NoneSettles
  /\ UNCHANGED <<activated, log, ncalls, waiting, queue, cur, bi, started,
                 active, direct, transformEvents, upd>>

\* _sync of the MemorySource, up to its call of transformed([transform]).
SyncHandler ==
  /\ phase = "handler"
  /\ cur.kind = "sync"
  /\ IF Contains(log, cur.tid)
       THEN /\ phase' = "post"
            /\ Returned(EmptyResponse, FALSE)
            /\ UNCHANGED <<cacheVars, pending, resp, err>>
       ELSE IF CacheUpdateThrows(TransformOps(cur.tid))
         THEN /\ Thrown(HandlerError)
              /\ UNCHANGED cacheVars
         ELSE /\ ApplyTransform(cur.tid)
              /\ phase' = "transformed"
              /\ pending' = <<cur.tid>>
              /\ Returned(EmptyResponse, TRUE)
              /\ UNCHANGED <<resp, err>>
  /\ NoneSettles
  /\ UNCHANGED <<activated, log, ncalls, waiting, queue, cur, bi, started,
                 active, direct, transformEvents, upd>>

\* The transform lists a _pull response can carry.
PullTransforms ==
  UNION {[1..n -> TransformIds] : n \in 0..MaxPull}

\* The responses _pull can return.
PullResponses ==
  {ValResponse(ValUndefined, ValList(ts)) : ts \in PullTransforms}
    \cup {EmptyResponse}

\* _pull of a pullable source: any response, or an error.
PullHandler ==
  /\ phase = "handler"
  /\ cur.kind = "pull"
  /\ \/ \E response \in PullResponses :
          AfterHandler(response) /\ Returned(response, FALSE)
     \/ Thrown(HandlerError)
  /\ NoneSettles
  /\ UNCHANGED <<activated, log, cacheVars, ncalls, waiting, queue, cur, bi,
                 started, active, direct, transformEvents, upd>>

----------------------------------------------------------------------------
(* Source.transformed and the settle-in-series emissions.                  *)

\* Variant of TransformedAppend: contained transforms are appended again.
TransformedAppendAgain(l, t, by) == LogAppend(l, t, by)

\* transformed(): a transform already contained in the log is skipped,
\* any other one is appended.
TransformedAppend(l, t, by) ==
  IF Contains(l, t) THEN l ELSE LogAppend(l, t, by)

\* settleInSeries: the number of listeners that run when listener `thrower`
\* (0: none) throws.
ListenersRun(thrower) == NumObs

\* Variant of AfterPost: a throwing post listener fails the request.
AfterPostAborts(thrower) == IF thrower # 0 THEN "fail" ELSE "done"

\* Where the task goes after `await settleInSeries(this, <post>, ...)`.
AfterPost(thrower) == "done"

\* Where the task goes after the transform event of one transform.
AfterTransformEvent(thrower, rest) ==
  IF rest = <<>> THEN "post" ELSE "transformed"

\* The listeners of an observational event have settled.
Emitted(name, t, thrower) ==
  seen' = [seen EXCEPT !.evs = Append(@, Ev(name, t, ListenersRun(thrower))),
                       !.obsThrew = @ \/ thrower # 0]

\* transformed(), for the task in process: the next transform is skipped or
\* appended to the log, or the append fails and leaves the log as it was.
RecordTransform ==
  /\ phase = "transformed"
  /\ LET t == Head(pending) IN
     \/ /\ log' = TransformedAppend(log, t, cur.kind)
        /\ IF Contains(log, t)
             THEN /\ pending' = Tail(pending)
                  /\ phase' = IF Tail(pending) = <<>> THEN "post"
                              ELSE "transformed"
                  /\ UNCHANGED seen
             ELSE /\ phase' = "emit"
                  /\ seen' = [seen EXCEPT !.appended = Append(@, t)]
                  /\ UNCHANGED pending
        /\ UNCHANGED err
     \/ /\ ~Contains(log, t)
        /\ phase' = "fail"
        /\ err' = AppendError
        /\ seen' = [seen EXCEPT !.thrown = AppendError]
        /\ UNCHANGED <<log, pending>>
  /\ NoneSettles
  /\ UNCHANGED <<activated, cacheVars, ncalls, waiting, queue, cur, bi, resp,
                 started, active, direct, transformEvents, upd>>

\* transformed(), for the task in process: the transform event of the
\* transform just appended.
EmitTransform ==
  /\ phase = "emit"
  /\ \E thrower \in 0..NumObs :
       /\ Emitted("transform", Head(pending), thrower)
       /\ phase' = AfterTransformEvent(thrower, Tail(pending))
  /\ transformEvents' = [transformEvents EXCEPT ![Head(pending)] = @ + 1]
  /\ pending' = Tail(pending)
  /\ NoneSettles
  /\ UNCHANGED <<activated, log, cacheVars, ncalls, waiting, queue, cur, bi,
                 resp, err, started, active, direct, upd>>

\* await settleInSeries(this, 'update' / 'pull' / 'sync', ...)
EmitPost ==
  /\ phase = "post"
  /\ \E thrower \in 0..NumObs :
       /\ Emitted("post", cur.tid, thrower)
       /\ phase' = AfterPost(thrower)
  /\ NoneSettles
  /\ UNCHANGED <<activated, log, cacheVars, ncalls, waiting, queue, cur, bi,
                 pending, resp, err, started, active, direct, transformEvents,
                 upd>>

\* What pull() returns for a response of the queued task.
PullResult(full, response) ==
  IF full THEN response
  ELSE IF response.transforms = ValUndefined THEN ValList(<<>>)
  ELSE response.transforms

\* What the public method returns for the task's full response.
PublicResult(r, response) ==
  CASE r.kind = "update" -> UpdateResult(r.full, response)
    [] r.kind = "pull" -> PullResult(r.full, response)
    [] r.kind = "sync" -> ValUndefined

\* Leaving the task: the queue may dispatch the next one.
TaskEnds ==
  /\ cur' = NoRequest
  /\ phase' = "idle"
  /\ bi' = 0
  /\ pending' = <<>>
  /\ resp' = EmptyResponse
  /\ err' = NoError
  /\ seen' = NothingSeen
  /\ active' = active \ {cur.n}

\* The task returns its response; the public promise resolves.
Resolve ==
  /\ phase = "done"
  /\ Settles(cur, "resolved", "task", PublicResult(cur, resp), NoError, seen)
  /\ TaskEnds
  /\ UNCHANGED <<activated, log, cacheVars, ncalls, waiting, queue, started,
                 direct, transformEvents>>

\* catch (error): await settleInSeries(this, '<kind>Fail', ...)
EmitFail ==
  /\ phase = "fail"
  /\ \E thrower \in 0..NumObs : Emitted("fail", cur.tid, thrower)
  /\ phase' = "failed"
  /\ NoneSettles
  /\ UNCHANGED <<activated, log, cacheVars, ncalls, waiting, queue, cur, bi,
                 pending, resp, err, started, active, direct, transformEvents,
                 upd>>

\* throw error: the task rejects; the public promise rejects.
Reject ==
  /\ phase = "failed"
  /\ Settles(cur, "rejected", "task", ValUndefined, err, seen)
  /\ TaskEnds
  /\ UNCHANGED <<activated, log, cacheVars, ncalls, waiting, queue, started,
                 direct, transformEvents>>

----------------------------------------------------------------------------
(* transformed([t]) called on the source from outside the request queue.   *)

DirectCall(t) ==
  /\ direct.n < MaxDirect
  /\ direct.pc = "idle"
  /\ direct' = [n |-> direct.n + 1, pc |-> "waiting", t |-> t]
  /\ NoneSettles
  /\ UNCHANGED <<activated, log, cacheVars, ncalls, waiting, queue, taskVars,
                 started, active, transformEvents, upd>>

\* After `await this.activated`: skip, append, or a failed append.
DirectRecord ==
  /\ activated
  /\ direct.pc = "waiting"
  /\ \/ /\ log' = TransformedAppend(log, direct.t, "direct")
        /\ direct' = [direct EXCEPT
                        !.pc = IF Contains(log, direct.t) THEN "idle"
                               ELSE "emit"]
     \/ /\ ~Contains(log, direct.t)
        /\ direct' = [direct EXCEPT !.pc = "idle"]
        /\ UNCHANGED log
  /\ NoneSettles
  /\ UNCHANGED <<activated, cacheVars, ncalls, waiting, queue, taskVars,
                 started, active, transformEvents, upd>>

\* The transform event of the transform just appended.
DirectEmit ==
  /\ direct.pc = "emit"
  /\ direct' = [direct EXCEPT !.pc = "idle"]
  /\ transformEvents' = [transformEvents EXCEPT ![direct.t] = @ + 1]
  /\ NoneSettles
  /\ UNCHANGED <<activated, log, cacheVars, ncalls, waiting, queue, taskVars,
                 started, active, upd>>

----------------------------------------------------------------------------

Next ==
  \/ Activate
  \/ \E t \in TransformIds, full \in BOOLEAN : Call("update", t, full)
  \/ \E t \in TransformIds : Call("sync", t, FALSE)
  \/ \E full \in BOOLEAN : Call("pull", 0, full)
  \/ \E i \in DOMAIN waiting : UpdateResume(waiting[i])
  \/ \E i \in DOMAIN waiting : PullResume(waiting[i])
  \/ \E i \in DOMAIN waiting : SyncResume(waiting[i])
  \/ \E i \in DOMAIN queue : ProcessUpdate(queue[i])
  \/ \E i \in DOMAIN queue : ProcessPull(queue[i])
  \/ \E i \in DOMAIN queue : ProcessSync(queue[i])
  \/ BeforeFulfilled
  \/ BeforeRejected
  \/ UpdateHandler
  \/ SyncHandler
  \/ PullHandler
  \/ RecordTransform
  \/ EmitTransform
  \/ EmitPost
  \/ Resolve
  \/ EmitFail
  \/ Reject
  \/ \E t \in TransformIds : DirectCall(t)
  \/ DirectRecord
  \/ DirectEmit

Spec == Init /\ [][Next]_vars

TypeOK ==
  /\ activated \in BOOLEAN
  /\ ncalls \in 0..MaxCalls
  /\ Len(queue) <= MaxCalls
  /\ \A i \in 1..Len(log) : log[i].id \in TransformIds

----------------------------------------------------------------------------
(* A parent MemorySource and its fork.  Every step is one complete         *)
(* operation on one of them, made while no other request is in flight and  *)
(* with no listener rejecting.                                             *)

ForkTransformIds == 1..NumForkTransforms

\* A Transform object.
Transform(id, ops) == [id |-> id, operations |-> ops]

\* The transform a caller presents under a given id.
Presented(t) == Transform(t, TransformOps(t))

\* dict[key] = value
Put(dict, key, value) ==
  [k \in (DOMAIN dict) \cup {key} |-> IF k = key THEN value ELSE dict[k]]

\* delete dict[key]
Drop(dict, key) == [k \in (DOMAIN dict) \ {key} |-> dict[k]]

\* Array.prototype.reverse
Reverse(q) == [i \in 1..Len(q) |-> q[Len(q) + 1 - i]]

\* Position of an id in the log.
IndexOf(l, id) == CHOOSE i \in 1..Len(l) : l[i].id = id

\* transformLog.after(id): the ids strictly after id.
After(l, id) == SubSeq(LogIds(l), IndexOf(l, id) + 1, Len(l))

\* this._transforms[id]
StoredTransform(s, id) ==
  Transform(id, IF id \in DOMAIN s.transforms THEN s.transforms[id] ELSE <<>>)

StoredTransforms(s, ids) ==
  [i \in 1..Len(ids) |-> StoredTransform(s, ids[i])]

allTransforms(s) == StoredTransforms(s, LogIds(s.log))

transformsSince(s, id) == StoredTransforms(s, After(s.log, id))

\* MemorySource._applyTransform, on source s.
SourceApplyTransform(s, t) ==
  LET r == CacheUpdate(s.records, t.operations) IN
  [s EXCEPT !.records = r.records,
            !.transforms = Put(@, t.id, t.operations),
            !.inverses = Put(@, t.id, r.inverseOperations)]

RECURSIVE SourceApplyTransforms(_, _)
SourceApplyTransforms(s, ts) ==
  IF ts = <<>> THEN s
  ELSE SourceApplyTransforms(SourceApplyTransform(s, Head(ts)), Tail(ts))

\* MemorySource._clearTransformFromHistory
clearTransformFromHistory(s, id) ==
  [s EXCEPT !.transforms = Drop(@, id), !.inverses = Drop(@, id)]

\* The body of the loops of _logRolledback and rebase: patch the cache with
\* the stored inverse operations, then forget the transform.
UndoTransform(s, id) ==
  clearTransformFromHistory(
    IF id \in DOMAIN s.inverses
      THEN [s EXCEPT !.records = ApplyOperations(@, s.inverses[id])]
      ELSE s,
    id)

RECURSIVE UndoTransforms(_, _)
UndoTransforms(s, ids) ==
  IF ids = <<>> THEN s
  ELSE UndoTransforms(UndoTransform(s, Head(ids)), Tail(ids))

\* Variant of Applies: the log is not consulted.
AppliesWhateverTheLog(s, t) == ~CacheUpdateThrows(t.operations)

\* Does update(t) / sync(t) on source s apply t?
Applies(s, t) ==
  ~Contains(s.log, t.id) /\ ~CacheUpdateThrows(t.operations)

\* update(t) / sync(t) on source s, run to completion.
Requested(s, t, by) ==
  IF Applies(s, t)
    THEN [SourceApplyTransform(s, t) EXCEPT !.log = LogAppend(@, t.id, by)]
    ELSE s

\* Variant of Commit: the fork's cache is the cache object of its base.
CommitToBaseCache(ss, who, s) ==
  [ss EXCEPT ![who] = s, !.parent.records = s.records]

\* Source `who` takes state s; the other source keeps its own.
Commit(ss, who, s) == [ss EXCEPT ![who] = s]

Operates ==
  /\ nops < MaxOps
  /\ nops' = nops + 1
  /\ UNCHANGED <<requestVars, trial, store, remote>>

Exists(who) == who = "parent" \/ forked

\* parent.fork(): a new MemorySource with base = parent.
Fork ==
  /\ ~forked
  /\ Operates
  /\ forked' = TRUE
  /\ sources' = Commit(sources, "fork",
                       NewSource(sources.parent.records,
                                 LogHead(sources.parent.log)))
  /\ forkBase' = sources.parent.records
  /\ last' = [op |-> "fork"]
  /\ UNCHANGED <<alone, nmerges>>

\* who.update(t), awaited.
SourceUpdate(who, t) ==
  /\ Exists(who)
  /\ Operates
  /\ sources' = Commit(sources, who,
                       Requested(sources[who], Presented(t), "update"))
  /\ alone' = IF who = "parent"
                THEN Requested(alone, Presented(t), "update")
                ELSE alone
  /\ last' = [op |-> "update", who |-> who, tid |-> t,
              applied |-> Applies(sources[who], Presented(t))]
  /\ UNCHANGED <<forked, forkBase, nmerges>>

\* fork.sync(t), awaited.
ForkSync(t) ==
  /\ forked
  /\ Operates
  /\ sources' = Commit(sources, "fork",
                       Requested(sources.fork, Presented(t), "sync"))
  /\ last' = [op |-> "sync", who |-> "fork", tid |-> t,
              before |-> sources.fork,
              applied |-> Applies(sources.fork, Presented(t))]
  /\ UNCHANGED <<forked, forkBase, alone, nmerges>>

\* The `removed` array as the listeners registered after the source's own
\* receive it: _logRolledback has reversed it in place.
RemovedAsLeft(removed) == Reverse(removed)

\* transformLog.rollback(id) with the source's _logRolledback listener.
RolledBack(s, id) ==
  LET removed == After(s.log, id) IN
  [UndoTransforms(s, Reverse(removed)) EXCEPT
     !.log = SubSeq(s.log, 1, IndexOf(s.log, id))]

\* who.rollback(id), awaited; an id that is not in the log raises
\* NotLoggedException.
SourceRollback(who, id) ==
  /\ Exists(who)
  /\ Operates
  /\ LET s == sources[who] IN
     IF Contains(s.log, id)
       THEN /\ sources' = Commit(sources, who, RolledBack(s, id))
            /\ alone' = IF who = "parent" /\ Contains(alone.log, id)
                           THEN RolledBack(alone, id)
                           ELSE alone
            /\ last' = [op |-> "rollback", who |-> who, tid |-> id,
                        before |-> s, removed |-> After(s.log, id),
                        received |-> <<After(s.log, id),
                                       RemovedAsLeft(After(s.log, id))>>]
       ELSE /\ last' = [op |-> "throw", who |-> who]
            /\ UNCHANGED <<sources, alone>>
  /\ UNCHANGED <<forked, forkBase, nmerges>>

\* Variant of BaseTransforms: without a fork point there is nothing to apply.
NoBaseTransformsWithoutForkPoint(base, forkPoint) ==
  IF forkPoint = 0 THEN <<>> ELSE transformsSince(base, forkPoint)

\* The transforms of the base that rebase applies: those logged since the
\* fork point, or all of them when the base was empty at the fork point.
BaseTransforms(base, forkPoint) ==
  IF forkPoint = 0 THEN allTransforms(base)
  ELSE transformsSince(base, forkPoint)

\* base.transformsSince(forkPoint) raises NotLoggedException when the fork
\* point is no longer in the log of the base.
RebaseThrows(base, forkPoint) ==
  forkPoint # 0 /\ ~Contains(base.log, forkPoint)

Ids(ts) == [i \in 1..Len(ts) |-> ts[i].id]

\* Variant of UndoOrder: the local transforms are undone oldest first.
UndoOrderOldestFirst(localTransforms) == localTransforms

\* localTransforms.reverse(): the order in which rebase undoes them.
UndoOrder(localTransforms) == Reverse(localTransforms)

\* The array localTransforms when rebase iterates it to re-apply: reverse()
\* has reversed it in place.
ReapplyOrder(localTransforms) == Reverse(localTransforms)

\* The fork after each undo of rebase, as a source state per undone id.
RECURSIVE UndoStates(_, _)
UndoStates(s, ids) ==
  IF ids = <<>> THEN <<>>
  ELSE <<UndoTransform(s, Head(ids))>>
         \o UndoStates(UndoTransform(s, Head(ids)), Tail(ids))

\* Variant of Rebased: the fork point stays where it was.
RebasedFromSamePoint(f, base) ==
  LET baseTransforms == BaseTransforms(base, f.forkPoint)
      localTransforms == allTransforms(f)
      undone == UndoTransforms(f, Ids(UndoOrder(localTransforms)))
      withBase == SourceApplyTransforms(undone, baseTransforms)
  IN SourceApplyTransforms(withBase, ReapplyOrder(localTransforms))

\* fork.rebase() with at least one base transform.
Rebased(f, base) ==
  LET baseTransforms == BaseTransforms(base, f.forkPoint)
      localTransforms == allTransforms(f)
      undone == UndoTransforms(f, Ids(UndoOrder(localTransforms)))
      withBase == SourceApplyTransforms(undone, baseTransforms)
  IN [SourceApplyTransforms(withBase, ReapplyOrder(localTransforms))
        EXCEPT !.forkPoint = LogHead(base.log)]

\* Was the operation before this one a base.merge(fork), with the default
\* options, that resolved?
AfterMerge ==
  /\ last.op = "merge"
  /\ last.since = 0
  /\ last.coalesce
  /\ last.events = 1

\* fork.rebase()
ForkRebase ==
  /\ forked
  /\ Operates
  /\ LET f == sources.fork
         base == sources.parent
     IN IF RebaseThrows(base, f.forkPoint)
          THEN /\ last' = [op |-> "throw", who |-> "fork"]
               /\ UNCHANGED <<sources, forkBase>>
          ELSE IF BaseTransforms(base, f.forkPoint) = <<>>
            THEN /\ last' = [op |-> "rebase", base |-> <<>>, before |-> f,
                              again |-> last.op = "rebase",
                              afterMerge |-> AfterMerge]
                 /\ UNCHANGED <<sources, forkBase>>
            ELSE /\ sources' = Commit(sources, "fork", Rebased(f, base))
                 /\ forkBase' = base.records
                 /\ last' =
                      [op |-> "rebase",
                       base |-> BaseTransforms(base, f.forkPoint),
                       local |-> allTransforms(f),
                       before |-> f,
                       again |-> last.op = "rebase",
                       afterMerge |-> AfterMerge,
                       startedFrom |-> forkBase,
                       undone |-> Ids(UndoOrder(allTransforms(f))),
                       undoStates |->
                         UndoStates(f, Ids(UndoOrder(allTransforms(f)))),
                       reapplied |-> Ids(ReapplyOrder(allTransforms(f)))]
  /\ UNCHANGED <<forked, alone, nmerges>>

\* The record an operation targets.
TargetOf(o) == [type |-> o.record.type, id |-> o.record.id]

\* Index of the last operation of acc that targets record r (0: none).
LastOn(acc, r) ==
  IF \E i \in 1..Len(acc) : TargetOf(acc[i]) = r
    THEN CHOOSE i \in 1..Len(acc) :
           /\ TargetOf(acc[i]) = r
           /\ \A j \in (i + 1)..Len(acc) : TargetOf(acc[j]) # r
    ELSE 0

Without(q, i) == SubSeq(q, 1, i - 1) \o SubSeq(q, i + 1, Len(q))

\* Variant of Collapse: of two successive replaceAttribute operations on the
\* same attribute the first is kept.
CollapseKeepsFirst(acc, o) ==
  LET i == LastOn(acc, TargetOf(o)) IN
  IF i = 0 THEN Append(acc, o)
  ELSE IF o.op = "replaceAttribute" /\ acc[i].op = "replaceAttribute"
          /\ acc[i].attribute = o.attribute
    THEN acc
  ELSE IF o.op = "removeRecord" /\ acc[i].op = "addRecord"
    THEN Without(acc, i)
  ELSE Append(acc, o)

\* One step of the left-to-right fold of coalescing: operation o against the
\* operations kept so far.
Collapse(acc, o) ==
  LET i == LastOn(acc, TargetOf(o)) IN
  IF i = 0 THEN Append(acc, o)
  ELSE IF o.op = "replaceAttribute" /\ acc[i].op = "replaceAttribute"
          /\ acc[i].attribute = o.attribute
    THEN Append(Without(acc, i), o)
  ELSE IF o.op = "removeRecord" /\ acc[i].op = "addRecord"
    THEN Without(acc, i)
  ELSE Append(acc, o)

RECURSIVE CoalesceInto(_, _)
CoalesceInto(acc, ops) ==
  IF ops = <<>> THEN acc
  ELSE CoalesceInto(Collapse(acc, Head(ops)), Tail(ops))

coalesceRecordOperations(ops) == CoalesceInto(<<>>, ops)

\* The operations of a list of transforms, concatenated.
RECURSIVE Flattened(_)
Flattened(ts) ==
  IF ts = <<>> THEN <<>> ELSE Head(ts).operations \o Flattened(Tail(ts))

\* forkedSource.transformsSince(id) raises NotLoggedException when the id is
\* not in the fork's log.  since = 0 stands for no sinceTransformId.
MergeThrows(f, since) == since # 0 /\ ~Contains(f.log, since)

MergeSelected(f, since) ==
  IF since # 0 THEN transformsSince(f, since) ELSE allTransforms(f)

ReducedOps(f, since, coalesce) ==
  IF coalesce THEN coalesceRecordOperations(Flattened(MergeSelected(f, since)))
  ELSE Flattened(MergeSelected(f, since))

RECURSIVE RequestedEach(_, _)
RequestedEach(s, ts) ==
  IF ts = <<>> THEN s
  ELSE RequestedEach(Requested(s, Head(ts), "update"), Tail(ts))

\* Variant of Merged: every selected transform is applied through update.
MergedEach(s, f, since, coalesce, id) ==
  RequestedEach(s, MergeSelected(f, since))

\* s.merge(f, {sinceTransformId: since, coalesce}), awaited; id is the id
\* buildTransform generates for the reduced transform.
Merged(s, f, since, coalesce, id) ==
  Requested(s, Transform(id, ReducedOps(f, since, coalesce)), "update")

\* transformed() emits one transform event for each id it appends.
Emits(before, after) == Len(after.log) - Len(before.log)

\* parent.merge(fork, options)
ParentMerge(since, coalesce) ==
  /\ forked
  /\ nmerges < MaxMerges
  /\ Operates
  /\ LET f == sources.fork
         id == NumForkTransforms + nmerges + 1
     IN IF MergeThrows(f, since)
          THEN /\ last' = [op |-> "throw", who |-> "parent"]
               /\ UNCHANGED <<sources, alone, nmerges>>
          ELSE /\ sources' = Commit(sources, "parent",
                                    Merged(sources.parent, f, since,
                                           coalesce, id))
               /\ alone' = Merged(alone, f, since, coalesce, id)
               /\ nmerges' = nmerges + 1
               /\ last' =
                    [op |-> "merge", since |-> since, coalesce |-> coalesce,
                     id |-> id, logBefore |-> sources.parent.log,
                     events |-> Emits(sources.parent,
                                      Merged(sources.parent, f, since,
                                             coalesce, id))]
  /\ UNCHANGED <<forked, forkBase>>

ForkNext ==
  \/ Fork
  \/ \E who \in {"parent", "fork"}, t \in ForkTransformIds :
       SourceUpdate(who, t)
  \/ \E t \in ForkTransformIds : ForkSync(t)
  \/ \E who \in {"parent", "fork"}, t \in ForkTransformIds :
       SourceRollback(who, t)
  \/ ForkRebase
  \/ \E since \in {0} \cup ForkTransformIds, coalesce \in BOOLEAN :
       ParentMerge(since, coalesce)

ForkSpec == Init /\ [][ForkNext]_vars

\* Variant of logTruncated: the stored transforms of the removed ids are
\* kept.
logTruncatedKeeps(s, removed) == s

\* MemorySource._logTruncated: removed.forEach(_clearTransformFromHistory)
RECURSIVE logTruncated(_, _)
logTruncated(s, removed) ==
  IF removed = <<>> THEN s
  ELSE logTruncated(clearTransformFromHistory(s, Head(removed)),
                    Tail(removed))

\* MemorySource._logCleared
logCleared(s) == [s EXCEPT !.transforms = NoFields, !.inverses = NoFields]

\* Variant of Truncated: the stored transforms of all ids are discarded.
TruncatedForgetsAll(s, position) ==
  [logCleared(s) EXCEPT !.log = SubSeq(s.log, position + 1, Len(s.log))]

\* transformLog.truncate(id, relative) with the source's _logTruncated
\* listener: the entries up to position are discarded.
Truncated(s, position) ==
  [logTruncated(s, SubSeq(LogIds(s.log), 1, position)) EXCEPT
     !.log = SubSeq(s.log, position + 1, Len(s.log))]

\* transformLog.clear() with the source's _logCleared listener.
Cleared(s) == [logCleared(s) EXCEPT !.log = <<>>]

\* who.transformLog.truncate(id, relative), awaited.  With relative = 0 the
\* entries at and before id are discarded, with relative = -1 those before
\* it; an id that is not in the log raises NotLoggedException.
SourceTruncate(who, id, relative) ==
  /\ Exists(who)
  /\ Operates
  /\ LET s == sources[who] IN
     IF Contains(s.log, id)
       THEN /\ sources' =
                 Commit(sources, who,
                        Truncated(s, IndexOf(s.log, id) + relative))
            /\ alone' = IF who = "parent" /\ Contains(alone.log, id)
                           THEN Truncated(alone,
                                          IndexOf(alone.log, id) + relative)
                           ELSE alone
            /\ last' = [op |-> "truncate", who |-> who, tid |-> id,
                        before |-> s,
                        removed |->
                          SubSeq(LogIds(s.log), 1,
                                 IndexOf(s.log, id) + relative)]
       ELSE /\ last' = [op |-> "throw", who |-> who]
            /\ UNCHANGED <<sources, alone>>
  /\ UNCHANGED <<forked, forkBase, nmerges>>

\* who.transformLog.clear(), awaited.
SourceClear(who) ==
  /\ Exists(who)
  /\ Operates
  /\ sources' = Commit(sources, who, Cleared(sources[who]))
  /\ alone' = IF who = "parent" THEN Cleared(alone) ELSE alone
  /\ last' = [op |-> "clear", who |-> who, before |-> sources[who],
              removed |-> LogIds(sources[who].log)]
  /\ UNCHANGED <<forked, forkBase, nmerges>>

\* The parent and its fork with their logs truncated and cleared as well.
HistoryNext ==
  \/ ForkNext
  \/ \E who \in {"parent", "fork"}, id \in ForkTransformIds,
        relative \in {-1, 0} : SourceTruncate(who, id, relative)
  \/ \E who \in {"parent", "fork"} : SourceClear(who)

HistorySpec == Init /\ [][HistoryNext]_vars

\* An update in flight: _update has applied its transform to the cache and
\* transformed() has not yet appended the id to the log.  `applied` is the
\* source as _update left it, `sound` tells whether the cache was the replay
\* of the log when the update began.
InFlightUpdate(who, t, applied, sound) ==
  [stage |-> "flight", who |-> who, tid |-> t, applied |-> applied,
   sound |-> sound]

Flying(who) == trial.stage = "flight" /\ trial.who = who

\* The cache a source has when the transforms of its log are applied in log
\* order: to the cache of the base as of the fork point for a fork, to an
\* empty cache for the parent.
Replay(who, s) ==
  ApplyOperations(IF who = "fork" THEN forkBase ELSE NoFields,
                  Flattened(allTransforms(s)))

FlightSteps ==
  /\ nops < MaxOps
  /\ nops' = nops + 1
  /\ UNCHANGED <<requestVars, store, remote, forked, forkBase, alone, nmerges>>

\* __update__ of who.update(t), up to the return of _update: the id is not
\* in the log, so _update applies the transform.  The source processes one
\* request at a time.
SourceUpdateApplies(who, t) ==
  /\ Exists(who)
  /\ trial.stage # "flight"
  /\ Applies(sources[who], Presented(t))
  /\ FlightSteps
  /\ sources' = Commit(sources, who,
                       SourceApplyTransform(sources[who], Presented(t)))
  /\ trial' = InFlightUpdate(who, t,
                             SourceApplyTransform(sources[who], Presented(t)),
                             sources[who].records
                               = Replay(who, sources[who]))
  /\ last' = [op |-> "applied", who |-> who, tid |-> t]

\* __update__ goes on: transformed([t]) appends the id to the log, and the
\* update resolves.
SourceUpdateLogs ==
  /\ trial.stage = "flight"
  /\ FlightSteps
  /\ sources' = [sources EXCEPT
                   ![trial.who].log = LogAppend(@, trial.tid, "update")]
  /\ trial' = [stage |-> "landed", who |-> trial.who, tid |-> trial.tid,
               interfered |-> sources[trial.who] # trial.applied,
               sound |-> trial.sound]
  /\ last' = [op |-> "logged", who |-> trial.who, tid |-> trial.tid]

\* The parent and its fork with updates that stay in flight while
\* rollback(), rebase() and the requests of the other source run.  A request
\* to a source that has an update in flight waits in its queue.
FlightNext ==
  \/ /\ trial.stage # "flight"
     /\ Fork
  \/ \E who \in {"parent", "fork"}, t \in ForkTransformIds :
       /\ ~Flying(who)
       /\ SourceUpdate(who, t)
  \/ \E who \in {"parent", "fork"}, t \in ForkTransformIds :
       SourceUpdateApplies(who, t)
  \/ SourceUpdateLogs
  \/ \E who \in {"parent", "fork"}, t \in ForkTransformIds :
       SourceRollback(who, t)
  \/ ForkRebase

FlightSpec == Init /\ [][FlightNext]_vars

----------------------------------------------------------------------------
(* Trials of the cache's operators: a starting cache state and an          *)
(* operation sequence are drawn, and the operators are applied to them.    *)

Io == [type |-> "moon", id |-> "io"]

\* The operations a trial draws its sequence from.
TrialOps ==
  {AddRecordOp(RecordOf(Jupiter, [a \in {"name"} |-> "Jupiter"])),
   RemoveRecordOp(Jupiter),
   ReplaceAttributeOp(Jupiter, "name", "Jove"),
   ReplaceAttributeOp(Jupiter, "name", "Zeus"),
   AddRecordOp(RecordOf(Io, NoFields))}

TrialSequences == UNION {[1..n -> TrialOps] : n \in 0..MaxLen}

\* The cache states a trial starts from: empty, jupiter with a name, jupiter
\* without attributes.
TrialStarts ==
  {NoFields,
   setRecordSync(NoFields, RecordOf(Jupiter, [a \in {"name"} |-> "Jupiter"])),
   setRecordSync(NoFields, cloneRecordIdentity(Jupiter))}

TrialDrawn ==
  /\ RequestsIdle
  /\ ForkIdle
  /\ StoreIdle
  /\ RemoteIdle
  /\ trial \in {[stage |-> "drawn", start |-> s0, ops |-> ops] :
                  s0 \in TrialStarts, ops \in TrialSequences}

Tries == UNCHANGED <<requestVars, forkVars, store, remote>>

\* cache.update({operations: ops}, {fullResponse: true}) on the start state.
TrialUpdate ==
  /\ trial.stage = "drawn"
  /\ Tries
  /\ trial' = [stage |-> "updated", start |-> trial.start, ops |-> trial.ops,
               records |-> CacheUpdate(trial.start, trial.ops).records,
               inverseOperations |->
                 CacheUpdate(trial.start, trial.ops).inverseOperations]

\* cache.patch(inverseOperations) on the updated cache.
TrialPatch ==
  /\ trial.stage = "updated"
  /\ Tries
  /\ trial' = [stage |-> "patched", start |-> trial.start, ops |-> trial.ops,
               updated |-> trial.records,
               inverseOperations |-> trial.inverseOperations,
               records |->
                 ApplyOperations(trial.records, trial.inverseOperations)]

\* A cache in the start state receives the sequence as merge builds it, once
\* coalesced and once with coalesce: false.
TrialCoalesce ==
  /\ trial.stage = "drawn"
  /\ Tries
  /\ trial' = [stage |-> "coalesced", start |-> trial.start,
               ops |-> trial.ops,
               coalesced |-> coalesceRecordOperations(trial.ops),
               records |->
                 ApplyOperations(trial.start,
                                 coalesceRecordOperations(trial.ops)),
               uncoalesced |-> ApplyOperations(trial.start, trial.ops)]

CacheNext == TrialUpdate \/ TrialPatch \/ TrialCoalesce

CacheSpec == TrialDrawn /\ [][CacheNext]_vars

----------------------------------------------------------------------------
(* A record cache with a key map and an inverse-relationship index.  Its   *)
(* schema: a planet has many moons (inverse: planet), a moon has one       *)
(* planet (inverse: moons); a planet has the key remoteId.                 *)

Europa == [type |-> "moon", id |-> "europa"]

Identities == {Jupiter, Io, Europa}

\* The relationship the schema declares for a type.
RelationshipOf(type) == IF type = "planet" THEN "moons" ELSE "planet"

IsToMany(type, relationship) == type = "planet" /\ relationship = "moons"

FullRecord(identity, keys, attrs, rels) ==
  [type |-> identity.type, id |-> identity.id, keys |-> keys,
   attributes |-> attrs, relationships |-> rels]

\* Variant of getRecordsSync: the records come back last identity first.
RECURSIVE getRecordsBackwards(_, _)
getRecordsBackwards(recs, identities) ==
  IF identities = <<>> THEN <<>>
  ELSE getRecordsBackwards(recs, Tail(identities))
         \o (IF HasRecord(recs, Head(identities))
               THEN <<recs[Head(identities)]>> ELSE <<>>)

\* getRecordsSync(identities)
RECURSIVE getRecordsSync(_, _)
getRecordsSync(recs, identities) ==
  IF identities = <<>> THEN <<>>
  ELSE (IF HasRecord(recs, Head(identities))
          THEN <<recs[Head(identities)]>> ELSE <<>>)
         \o getRecordsSync(recs, Tail(identities))

\* removeRecordsSync(identities)
RECURSIVE removeRecordsSync(_, _)
removeRecordsSync(recs, identities) ==
  IF identities = <<>> THEN recs
  ELSE removeRecordsSync(removeRecordSync(recs, Head(identities)),
                         Tail(identities))

\* keyMap.pushRecord(record): every key of the record resolves to its id.
pushRecord(keyMap, record) ==
  LET pushed == {<<record.type, k, record.keys[k]>> : k \in DOMAIN record.keys}
  IN [x \in (DOMAIN keyMap) \cup pushed |->
        IF x \in pushed THEN record.id ELSE keyMap[x]]

\* keyMap.keyToId(type, keyName, keyValue)
keyToId(keyMap, type, keyName, keyValue) ==
  IF <<type, keyName, keyValue>> \in DOMAIN keyMap
    THEN keyMap[<<type, keyName, keyValue>>] ELSE Undefined

\* Variant of KeyMapAfter: replaceKey does not push the record.
KeyMapAfterAdds(keyMap, o, recs) ==
  IF o.op \in {"addRecord", "updateRecord"}
    THEN pushRecord(keyMap, recs[TargetOf(o)])
    ELSE keyMap

\* if (cache.keyMap) cache.keyMap.pushRecord(record), as addRecord,
\* updateRecord and replaceKey call it with the record they stored.
KeyMapAfter(keyMap, o, recs) ==
  IF o.op \in {"addRecord", "updateRecord", "replaceKey"}
    THEN pushRecord(keyMap, recs[TargetOf(o)])
    ELSE keyMap

RelationshipIdentity(identity, relationship, relatedRecord) ==
  [record |-> identity, relationship |-> relationship,
   relatedRecord |-> relatedRecord]

getInverseRelationshipsSync(inverse, identity) ==
  IF identity \in DOMAIN inverse THEN inverse[identity] ELSE <<>>

RECURSIVE addInverseRelationshipsSync(_, _)
addInverseRelationshipsSync(inverse, relationships) ==
  IF relationships = <<>> THEN inverse
  ELSE addInverseRelationshipsSync(
         Put(inverse, Head(relationships).relatedRecord,
             Append(getInverseRelationshipsSync(
                      inverse, Head(relationships).relatedRecord),
                    Head(relationships))),
         Tail(relationships))

RECURSIVE removeInverseRelationshipsSync(_, _)
removeInverseRelationshipsSync(inverse, relationships) ==
  IF relationships = <<>> THEN inverse
  ELSE removeInverseRelationshipsSync(
         IF Head(relationships).relatedRecord \in DOMAIN inverse
           THEN Put(inverse, Head(relationships).relatedRecord,
                    SelectSeq(inverse[Head(relationships).relatedRecord],
                              LAMBDA rel :
                                ~(/\ rel.record = Head(relationships).record
                                  /\ rel.relationship =
                                       Head(relationships).relationship)))
           ELSE inverse,
         Tail(relationships))

\* The identities a record is related to.
RelatedTo(record) ==
  LET relationship == RelationshipOf(record.type) IN
  IF ~HasRelated(record, relationship) THEN <<>>
  ELSE IF IsToMany(record.type, relationship)
    THEN record.relationships[relationship]
  ELSE IF record.relationships[relationship] = NullIdentity THEN <<>>
  ELSE <<record.relationships[relationship]>>

\* The relationship edges that leave the record of an identity.
EdgesOf(recs, identity) ==
  IF HasRecord(recs, identity)
    THEN [i \in 1..Len(RelatedTo(recs[identity])) |->
            RelationshipIdentity(identity, RelationshipOf(identity.type),
                                 RelatedTo(recs[identity])[i])]
    ELSE <<>>

\* Variant of IndexAfter: the edges an operation adds are not indexed.
IndexAfterRemovals(inverse, before, after, identity) ==
  removeInverseRelationshipsSync(inverse, EdgesOf(before, identity))

\* The index once the edges of the written record are brought up to date.
IndexAfter(inverse, before, after, identity) ==
  addInverseRelationshipsSync(
    removeInverseRelationshipsSync(inverse, EdgesOf(before, identity)),
    EdgesOf(after, identity))

\* The operation that strips the edge rel from the record it leaves.
StripOp(rel) ==
  IF IsToMany(rel.record.type, rel.relationship)
    THEN RemoveFromRelatedRecordsOp(rel.record, rel.relationship,
                                    rel.relatedRecord)
    ELSE ReplaceRelatedRecordOp(rel.record, rel.relationship, NullIdentity)

StripOps(rels) == [i \in 1..Len(rels) |-> StripOp(rels[i])]

\* removeRecord strips every edge that refers to the removed record from the
\* record it leaves.
Stripped(recs, inverse, o) ==
  IF o.op = "removeRecord"
    THEN ApplyOperations(recs,
           StripOps(SelectSeq(
                      getInverseRelationshipsSync(inverse, TargetOf(o)),
                      LAMBDA rel : HasRecord(recs, rel.record))))
    ELSE recs

\* cache.update of one operation: the operator, the key map, the index.
Updated(st, o) ==
  LET written == ApplyOperation(st.records, o)
      indexed == IndexAfter(st.inverse, st.records, written, TargetOf(o))
  IN [st EXCEPT
        !.records = Stripped(written, st.inverse, o),
        !.keyMap = KeyMapAfter(@, o, written),
        !.inverse = IF o.op = "removeRecord"
                      THEN Drop(indexed, TargetOf(o)) ELSE indexed]

JupiterNamed ==
  FullRecord(Jupiter, [k \in {"remoteId"} |-> "j"],
             [a \in {"name"} |-> "Jupiter"], NoFields)

\* The operations given to the cache.
StoreOps ==
  {AddRecordOp(JupiterNamed),
   AddRecordOp(FullRecord(Io, NoFields, NoFields,
                          [r \in {"planet"} |-> Jupiter])),
   UpdateRecordOp(FullRecord(Jupiter, NoFields,
                             [a \in {"classification"} |-> "gas giant"],
                             [r \in {"moons"} |-> <<Europa>>])),
   UpdateRecordOp(FullRecord(Jupiter, [k \in {"remoteId"} |-> "k"],
                             [a \in {"name"} |-> "Jove"], NoFields)),
   RemoveRecordOp(Jupiter),
   RemoveRecordOp(Io),
   ReplaceKeyOp(Jupiter, "remoteId", "123"),
   ReplaceAttributeOp(Jupiter, "name", "Zeus"),
   AddToRelatedRecordsOp(Jupiter, "moons", Io),
   AddToRelatedRecordsOp(Jupiter, "moons", Europa),
   RemoveFromRelatedRecordsOp(Jupiter, "moons", Io),
   ReplaceRelatedRecordsOp(Jupiter, "moons", <<Europa, Io>>),
   ReplaceRelatedRecordsOp(Jupiter, "moons", <<>>),
   ReplaceRelatedRecordOp(Io, "planet", Jupiter),
   ReplaceRelatedRecordOp(Io, "planet", NullIdentity)}

IdentityLists == UNION {[1..n -> Identities] : n \in 0..MaxIds}

\* The inverse relationships given directly to the index.
InverseLists ==
  UNION {[1..n -> {RelationshipIdentity(Jupiter, "moons", Io),
                   RelationshipIdentity(Jupiter, "moons", Europa),
                   RelationshipIdentity(Io, "planet", Jupiter)}] :
           n \in 1..MaxIds}

StoreSteps ==
  /\ store.steps < MaxSteps
  /\ UNCHANGED <<requestVars, forkVars, trial, remote>>

\* cache.update((t) => operation)
StoreUpdate(o) ==
  /\ StoreSteps
  /\ store' = [Updated(store, o) EXCEPT
                 !.steps = @ + 1,
                 !.did = [op |-> "update", operation |-> o,
                          before |-> store.records,
                          again |-> /\ store.did.op = "update"
                                    /\ store.did.operation = o]]

\* cache.getRecordsSync(identities)
StoreQuery(identities) ==
  /\ StoreSteps
  /\ store' = [store EXCEPT
                 !.steps = @ + 1,
                 !.did = [op |-> "query", identities |-> identities,
                          result |-> getRecordsSync(store.records, identities),
                          removed |-> /\ store.did.op = "removeRecords"
                                      /\ store.did.identities = identities,
                          found |-> IF store.did.op = "removeRecords"
                                      THEN store.did.found ELSE <<>>]]

\* cache.removeRecordsSync(identities)
StoreRemoveRecords(identities) ==
  /\ StoreSteps
  /\ store' = [store EXCEPT
                 !.records = removeRecordsSync(@, identities),
                 !.steps = @ + 1,
                 !.did = [op |-> "removeRecords", identities |-> identities,
                          found |-> getRecordsSync(store.records,
                                                   identities)]]

\* Is one of the relationships already an entry of the index?
Indexed(inverse, relationships) ==
  \E i \in 1..Len(relationships) :
    \E j \in 1..Len(getInverseRelationshipsSync(
                      inverse, relationships[i].relatedRecord)) :
      getInverseRelationshipsSync(inverse, relationships[i].relatedRecord)[j]
        = relationships[i]

\* cache.addInverseRelationshipsSync(relationships), called directly.
StoreAddInverse(relationships) ==
  /\ StoreSteps
  /\ store' = [store EXCEPT
                 !.inverse = addInverseRelationshipsSync(@, relationships),
                 !.steps = @ + 1,
                 !.did = [op |-> "addInverse",
                          relationships |-> relationships,
                          before |-> store.inverse,
                          fresh |-> ~Indexed(store.inverse, relationships)]]

\* cache.removeInverseRelationshipsSync(relationships), called directly with
\* the relationships the call before it added.
StoreRemoveInverse ==
  /\ StoreSteps
  /\ store.did.op = "addInverse"
  /\ store' = [store EXCEPT
                 !.inverse = removeInverseRelationshipsSync(
                               @, store.did.relationships),
                 !.steps = @ + 1,
                 !.did = [op |-> "removeInverse",
                          relationships |-> store.did.relationships,
                          before |-> store.did.before,
                          fresh |-> store.did.fresh]]

StoreNext ==
  \/ \E o \in StoreOps : StoreUpdate(o)
  \/ \E identities \in IdentityLists : StoreQuery(identities)
  \/ \E identities \in IdentityLists : StoreRemoveRecords(identities)
  \/ \E relationships \in InverseLists : StoreAddInverse(relationships)
  \/ StoreRemoveInverse

StoreSpec == Init /\ [][StoreNext]_vars

----------------------------------------------------------------------------
(* One update of a JSON:API source, the networked source: the requests of   *)
(* the transform, the request limit, the server's responses and the         *)
(* transforms the source records.                                           *)

JupiterLocal ==
  FullRecord(Jupiter, NoFields, [a \in {"name"} |-> "Jupiter"], NoFields)

\* The operations of the transform given to update.
RemoteTransforms ==
  {<<AddRecordOp(JupiterLocal)>>,
   <<AddRecordOp(JupiterNamed)>>,
   <<ReplaceAttributeOp(Jupiter, "classification", "terrestrial")>>,
   <<RemoveRecordOp(Jupiter), RemoveRecordOp(Io)>>,
   <<RemoveRecordOp(Jupiter), RemoveRecordOp(Io), RemoveRecordOp(Europa)>>,
   <<AddRecordOp(JupiterLocal), RemoveRecordOp(Io)>>}

\* jsonapiResponse(200): no body.
NoBody == [body |-> FALSE]

\* jsonapiResponse(201, { data: { id, type, attributes } })
Resource(id, attrs) == [body |-> TRUE, id |-> id, attributes |-> attrs]

\* What the server answers to the request of an operation.
ResponsesTo(o) ==
  IF o.op = "removeRecord" THEN {NoBody}
  ELSE {NoBody,
        Resource("12345", [a \in {"name"} |-> "Jupiter"]),
        Resource("j", [a \in {"name"} |-> "Jupiter"]),
        Resource("12345", [a \in {"name", "classification"} |->
                             IF a = "name" THEN "Mars" ELSE "terrestrial"])}

\* The requests of a transform: one for each operation.
getTransformRequests(operations) == operations

\* Variant of RequestLimit: the looser of the two limits counts.
LoosestLimit(perTransform, maxRequests) ==
  IF perTransform > maxRequests THEN perTransform ELSE maxRequests

\* The limit on the requests of one transform: maxRequestsPerTransform or
\* defaultTransformOptions.maxRequests, the more restrictive one if both are
\* set; 0 if none is.
RequestLimit(perTransform, maxRequests) ==
  IF perTransform = 0 THEN maxRequests
  ELSE IF maxRequests = 0 THEN perTransform
  ELSE IF perTransform < maxRequests THEN perTransform ELSE maxRequests

\* The record an operation sends to the server.
SentRecord(o) ==
  IF o.op = "addRecord" THEN o.record
  ELSE IF o.op = "replaceAttribute"
    THEN SetAttribute(cloneRecordIdentity(TargetOf(o)), o.attribute, o.value)
  ELSE cloneRecordIdentity(TargetOf(o))

\* The attributes a resource can carry, in the order of the document.
AttributeNames == <<"name", "classification">>

\* Does the response give the attribute a value other than the one sent?
AttributeDiffers(sent, response, a) ==
  /\ a \in DOMAIN response.attributes
  /\ \/ a \notin DOMAIN sent.attributes
     \/ sent.attributes[a] # response.attributes[a]

\* Does the response carry a remote id other than the one sent?
RemoteIdDiffers(sent, response) ==
  \/ "remoteId" \notin DOMAIN sent.keys
  \/ sent.keys["remoteId"] # response.id

\* The replaceAttribute operations for the attributes that differ.
AttributeOps(sent, response) ==
  LET differing == SelectSeq(AttributeNames,
                     LAMBDA a : AttributeDiffers(sent, response, a))
  IN [i \in 1..Len(differing) |->
        ReplaceAttributeOp(IdentityOf(sent), differing[i],
                           response.attributes[differing[i]])]

\* Variant of ResponseOps: the remote id of the response is ignored.
AttributeOpsOnly(sent, response) ==
  IF ~response.body THEN <<>> ELSE AttributeOps(sent, response)

\* The operations that bring the local record in line with the resource the
\* server returned: the attribute differences, then the remote id.
ResponseOps(sent, response) ==
  IF ~response.body THEN <<>>
  ELSE AttributeOps(sent, response)
         \o (IF RemoteIdDiffers(sent, response)
               THEN <<ReplaceKeyOp(IdentityOf(sent), "remoteId", response.id)>>
               ELSE <<>>)

\* The follow-on operations of all responses received.
RECURSIVE FollowOn(_, _)
FollowOn(operations, responses) ==
  IF responses = <<>> THEN <<>>
  ELSE ResponseOps(SentRecord(Head(operations)), Head(responses))
         \o FollowOn(Tail(operations), Tail(responses))

\* The transforms the update hands to transformed(): the requested one and,
\* if the responses call for operations, a follow-on one.
RemoteResult(operations, responses) ==
  IF FollowOn(operations, responses) = <<>> THEN <<operations>>
  ELSE <<operations, FollowOn(operations, responses)>>

\* The result of an operation once the server has answered its request.
NoResult == [type |-> "undefined", id |-> "undefined"]

ResultOf(o, response) ==
  IF response.body
    THEN FullRecord(TargetOf(o), [k \in {"remoteId"} |-> response.id],
                    response.attributes, NoFields)
    ELSE NoResult

\* Variant of ResultsOf: the results are listed last operation first.
ResultsBackwards(operations, responses) ==
  [i \in 1..Len(operations) |->
     ResultOf(operations[Len(operations) + 1 - i],
              responses[Len(operations) + 1 - i])]

\* The results of the operations of a transform, in operation order.
ResultsOf(operations, responses) ==
  [i \in 1..Len(operations) |-> ResultOf(operations[i], responses[i])]

\* The data update resolves with: the result of the only operation, or the
\* list of the results.
RemoteData(operations, responses) ==
  IF Len(operations) = 1 THEN ResultsOf(operations, responses)[1]
  ELSE ResultsOf(operations, responses)

\* Is a request waiting for its response?
InFlight(r) == Len(r.fetched) > Len(r.responses)

\* Variant of MayDispatch: a request is sent while another is in flight.
MayDispatchAhead(r) ==
  Len(r.fetched) < Len(getTransformRequests(r.operations))

\* The next request is sent once the one before it has been answered.
MayDispatch(r) ==
  /\ ~InFlight(r)
  /\ Len(r.fetched) < Len(getTransformRequests(r.operations))

\* Variant of LateResponse: the response that arrives after the timeout is
\* processed as if it were in time.
LateCommits(r, response) ==
  [r EXCEPT !.late = "arrived",
            !.events = Append(@, <<>>),
            !.logged = Append(@, Len(@) + 1)]

\* A response that arrives after the timeout of its request is dropped.
LateResponse(r, response) == [r EXCEPT !.late = "arrived"]

RemoteSteps == UNCHANGED <<requestVars, forkVars, trial, store>>

\* source.maxRequestsPerTransform = limit
SetMaxRequestsPerTransform(limit) ==
  /\ remote.stage = "idle"
  /\ remote.maxRequestsPerTransform = 0
  /\ RemoteSteps
  /\ remote' = [remote EXCEPT !.maxRequestsPerTransform = limit]

\* source.defaultTransformOptions = { maxRequests: limit }
SetDefaultTransformOptions(limit) ==
  /\ remote.stage = "idle"
  /\ remote.maxRequests = 0
  /\ RemoteSteps
  /\ remote' = [remote EXCEPT !.maxRequests = limit]

\* source.update(operations), up to the first request: the transform is
\* refused if it needs more requests than the limit allows.  The update
\* before it, if any, has settled.
RemoteUpdate(operations) ==
  /\ remote.stage \in {"idle", "settled"}
  /\ Len(remote.history) + 1 < MaxUpdates \/ remote.stage = "idle"
  /\ RemoteSteps
  /\ LET limit == RequestLimit(remote.maxRequestsPerTransform,
                               remote.maxRequests)
         refused == limit # 0 /\ Len(getTransformRequests(operations)) > limit
     IN remote' =
          [remote EXCEPT
             !.stage = IF refused THEN "settled" ELSE "requesting",
             !.operations = operations,
             !.outcome = IF refused THEN "TransformNotAllowed" ELSE "none",
             !.responses = <<>>, !.fetched = <<>>, !.events = <<>>,
             !.logged = <<>>, !.data = <<>>,
             !.history = IF remote.stage = "settled"
                           THEN Append(@, remote.outcome) ELSE @]

\* The next request is dispatched.
RemoteDispatch ==
  /\ remote.stage = "requesting"
  /\ MayDispatch(remote)
  /\ RemoteSteps
  /\ remote' = [remote EXCEPT
                  !.fetched = Append(@, remote.operations[Len(@) + 1])]

\* The server answers the request in flight within the timeout.
RemoteFetch(response) ==
  /\ remote.stage = "requesting"
  /\ InFlight(remote)
  /\ response \in ResponsesTo(remote.operations[Len(remote.responses) + 1])
  /\ RemoteSteps
  /\ remote' = [remote EXCEPT
                  !.responses = Append(@, response),
                  !.stage = IF Len(remote.responses) + 1
                                 = Len(getTransformRequests(remote.operations))
                              THEN "transformed" ELSE "requesting"]

\* No response within the timeout: the request fails with a NetworkError,
\* which update rejects with; the response is still to come.
RemoteTimeout ==
  /\ remote.stage = "requesting"
  /\ InFlight(remote)
  /\ RemoteSteps
  /\ remote' = [remote EXCEPT !.stage = "settled",
                              !.outcome = "NetworkError",
                              !.late = "pending"]

\* The response to a request that timed out arrives.
RemoteLateResponse(response) ==
  /\ remote.late = "pending"
  /\ RemoteSteps
  /\ remote' = LateResponse(remote, response)

\* transformed(transforms): the next transform is logged and its transform
\* event emitted.
RemoteTransformed ==
  /\ remote.stage = "transformed"
  /\ Len(remote.events)
       < Len(RemoteResult(remote.operations, remote.responses))
  /\ RemoteSteps
  /\ remote' = [remote EXCEPT
                  !.logged = Append(@, Len(@) + 1),
                  !.events =
                    Append(@, RemoteResult(remote.operations,
                                           remote.responses)[Len(@) + 1])]

\* The promise of update resolves once transformed() has returned.
RemoteResolve ==
  /\ remote.stage = "transformed"
  /\ Len(remote.events)
       = Len(RemoteResult(remote.operations, remote.responses))
  /\ RemoteSteps
  /\ remote' = [remote EXCEPT
                  !.stage = "settled", !.outcome = "resolved",
                  !.data = RemoteData(remote.operations, remote.responses)]

RemoteNext ==
  \/ \E limit \in 1..MaxLimit : SetMaxRequestsPerTransform(limit)
  \/ \E limit \in 1..MaxLimit : SetDefaultTransformOptions(limit)
  \/ \E operations \in RemoteTransforms : RemoteUpdate(operations)
  \/ RemoteDispatch
  \/ \E response \in ResponsesTo(AddRecordOp(JupiterLocal)) :
       RemoteFetch(response)
  \/ RemoteTimeout
  \/ \E response \in {NoBody} : RemoteLateResponse(response)
  \/ RemoteTransformed
  \/ RemoteResolve

RemoteSpec == Init /\ [][RemoteNext]_vars

----------------------------------------------------------------------------
(* The sources member of a full response: what __update__ and __pull__ do  *)
(* with the responses of the before<Kind> listeners, on drawn inputs.      *)

\* What a before<Kind> listener resolves with: nothing, or a named full
\* response.
NoResponse == [name |-> "undefined"]

ListenerResponses ==
  {NoResponse,
   [name |-> "remote", response |-> [transforms |-> <<1>>]],
   [name |-> "backup", response |-> [transforms |-> <<>>]]}

\* The responses fulfillInSeries collects: one for each listener.
OtherResponses == UNION {[1..n -> ListenerResponses] : n \in 0..NumBefore}

\* The full responses the protected handler returns.
HandlerResponses ==
  {[x \in {} |-> x], [m \in {"data"} |-> "record"]}

\* mapNamedFullResponses(responses): name -> response, for the listeners that
\* resolved with one.
mapNamedFullResponses(responses) ==
  [n \in {responses[i].name :
            i \in {j \in 1..Len(responses) : responses[j] # NoResponse}} |->
     (CHOOSE r \in {responses[i] : i \in 1..Len(responses)} :
        /\ r.name = n
        /\ \E i \in 1..Len(responses) :
             /\ responses[i] = r
             /\ \A j \in (i + 1)..Len(responses) :
                  responses[j].name # n).response]

\* __update__: if (options.includeSources) fullResponse.sources = ...
UpdateSources(options, otherResponses, fullResponse) ==
  IF options.includeSources
    THEN Put(fullResponse, "sources", mapNamedFullResponses(otherResponses))
    ELSE fullResponse

\* __pull__: if (otherResponses.length > 0) fullResponse.sources = ...
PullSources(options, otherResponses, fullResponse) ==
  IF Len(otherResponses) > 0
    THEN Put(fullResponse, "sources", mapNamedFullResponses(otherResponses))
    ELSE fullResponse

\* The inputs: the request's options, the listeners' responses and the
\* response of the handler.
SourcesDrawn ==
  /\ RequestsIdle /\ ForkIdle /\ StoreIdle /\ RemoteIdle
  /\ \E includeSources \in BOOLEAN, otherResponses \in OtherResponses,
        fullResponse \in HandlerResponses :
       trial = [stage |-> "requested",
                options |-> [includeSources |-> includeSources],
                otherResponses |-> otherResponses,
                fullResponse |-> fullResponse]

\* The request is an update.
SourcesOfUpdate ==
  /\ trial.stage = "requested"
  /\ Tries
  /\ trial' = [trial EXCEPT
                 !.stage = "update",
                 !.fullResponse = UpdateSources(trial.options,
                                                trial.otherResponses, @)]

\* The request is a pull.
SourcesOfPull ==
  /\ trial.stage = "requested"
  /\ Tries
  /\ trial' = [trial EXCEPT
                 !.stage = "pull",
                 !.fullResponse = PullSources(trial.options,
                                              trial.otherResponses, @)]

SourcesNext == SourcesOfUpdate \/ SourcesOfPull

SourcesSpec == SourcesDrawn /\ [][SourcesNext]_vars

----------------------------------------------------------------------------
(* Properties.                                                             *)

Count(l, t) == Cardinality({i \in 1..Len(l) : l[i].id = t})

LoggedBy(l, t, by) == \E i \in 1..Len(l) : l[i].id = t /\ l[i].by = by

Named(evs, name) == SelectSeq(evs, LAMBDA e : e.ev = name)

\* The events a request emitted after its before<Kind> emission.
Observed(evs) == SelectSeq(evs, LAMBDA e : e.ev # "before")

\* The transforms of a full response ([] when it has no such member).
Produced(response) ==
  IF response.transforms = ValUndefined THEN <<>>
  ELSE response.transforms.items

RECURSIVE IsSubseq(_, _)
IsSubseq(a, b) ==
  IF a = <<>> THEN TRUE
  ELSE IF b = <<>> THEN FALSE
  ELSE IF Head(a) = Head(b) THEN IsSubseq(Tail(a), Tail(b))
  ELSE IsSubseq(a, Tail(b))

IsIncreasing(q) == \A i, j \in 1..Len(q) : i < j => q[i] < q[j]

ResolvedUpdate ==
  settled.outcome = "resolved" /\ settled.req.kind = "update"

\* C1 (as stated): once an update(t) whose id was not in the log when the
\* call checked it has resolved, the log contains t.id and its head is t.id.
C1_LogHeadIsUpdated ==
  (ResolvedUpdate /\ settled.path # "logged")
    => Contains(log, settled.req.tid) /\ LogHead(log) = settled.req.tid

\* C1 (amended): once update(t) has resolved, the log contains t.id; when the
\* call's own task applied t, the head of the log is t.id unless a
\* transformed() call made outside the request queue appended a later id.
C1_LogContainsUpdated ==
  ResolvedUpdate =>
    /\ Contains(log, settled.req.tid)
    /\ settled.seen.applied =>
         \/ LogHead(log) = settled.req.tid
         \/ log[Len(log)].by = "direct"

\* C1 witness: an update that did the work resolves on top of an earlier
\* entry, with its id as the head.
C1_Witness ==
  /\ ResolvedUpdate
  /\ settled.seen.applied
  /\ Len(log) >= 2
  /\ LogHead(log) = settled.req.tid

C3_ReapplyResolvesEmpty ==
  (settled.req.kind = "update" /\ settled.path \in {"logged", "skipped"})
    => /\ settled.outcome = "resolved"
       /\ settled.res = IF settled.req.full
                          THEN ValResponse(ValUndefined, ValList(<<>>))
                          ELSE ValList(<<>>)
       /\ settled.seen.evs = <<>>

\* C4: at most one request handler runs at any time, and handlers start in
\* the order of the calls.
C4_Serialized ==
  /\ Cardinality(active) <= 1
  /\ IsIncreasing(started)

\* C4 witness: a later call is held in the queue while an earlier one's
\* handler is between its events, after a first handler has completed.
C4_Witness ==
  /\ cur # NoRequest
  /\ phase = "post"
  /\ queue # <<>>
  /\ Head(queue).n > cur.n

\* C5 (as stated): a request that produces [T1..Tn] emits transform(T1) ..
\* transform(Tn), then its post event, and resolves after them.
C5_EventOrder ==
  (settled.outcome = "resolved" /\ settled.path = "task"
     /\ settled.req.kind \in {"update", "pull"})
    => LET ts == Produced(settled.seen.response)
           obs == Observed(settled.seen.evs)
       IN /\ Len(obs) = Len(ts) + 1
          /\ \A i \in 1..Len(ts) : obs[i].ev = "transform" /\ obs[i].t = ts[i]
          /\ obs[Len(obs)].ev = "post"

\* C5 (amended): a request that produces [T1..Tn] emits a transform event
\* for each Ti that is not in the log when it is recorded, in list order,
\* then its post event; it resolves after them, with every Ti in the log.
C5_EventOrderOfRecorded ==
  (settled.outcome = "resolved" /\ settled.path = "task"
     /\ settled.req.kind \in {"update", "pull"})
    => LET ts == Produced(settled.seen.response)
           obs == Observed(settled.seen.evs)
           n == Len(settled.seen.appended)
       IN /\ Len(obs) = n + 1
          /\ \A i \in 1..n :
               obs[i].ev = "transform" /\ obs[i].t = settled.seen.appended[i]
          /\ obs[Len(obs)].ev = "post"
          /\ IsSubseq(settled.seen.appended, ts)
          /\ \A i \in 1..Len(ts) : Contains(log, ts[i])

\* C5 witness: a pull resolves after two transform events and its post event.
C5_Witness ==
  /\ settled.outcome = "resolved"
  /\ settled.req.kind = "pull"
  /\ Len(settled.seen.appended) = 2
  /\ Len(Observed(settled.seen.evs)) = 3

BeforeRejection(s) == s.thrown.src = "before"

\* C7: when a before<Kind> listener rejects, the handler is not invoked, the
\* request changes neither cache nor log, the fail event is emitted, and the
\* public promise rejects with the listener's error.
C7_BeforeRejectionAborts ==
  /\ BeforeRejection(seen) =>
       /\ phase \in {"fail", "failed"}
       /\ ~seen.invoked /\ ~seen.applied /\ seen.appended = <<>>
  /\ BeforeRejection(settled.seen) =>
       /\ settled.outcome = "rejected"
       /\ settled.err = ListenerError(Len(Named(settled.seen.evs, "before")))
       /\ ~settled.seen.invoked
       /\ ~settled.seen.applied
       /\ settled.seen.appended = <<>>
       /\ Len(Named(settled.seen.evs, "fail")) = 1
       /\ Observed(settled.seen.evs) = Named(settled.seen.evs, "fail")

\* C7 witness: the second beforeUpdate listener rejected an update made on a
\* source with a non-empty log.
C7_Witness ==
  /\ BeforeRejection(settled.seen)
  /\ settled.req.kind = "update"
  /\ settled.err = ListenerError(2)
  /\ log # <<>>

\* C8: a request whose processing throws emits its fail event exactly once
\* and no post event, rejects with the error thrown, and does not add the
\* request's transform id to the log.
C8_ThrowFails ==
  settled.seen.thrown # NoError =>
    /\ settled.outcome = "rejected"
    /\ settled.err = settled.seen.thrown
    /\ Len(Named(settled.seen.evs, "fail")) = 1
    /\ Named(settled.seen.evs, "post") = <<>>
    /\ \A i \in 1..Len(settled.seen.appended) :
         settled.seen.appended[i] # settled.req.tid

\* C8 witness: _update threw on an update.
C8_Witness ==
  /\ settled.seen.thrown = HandlerError
  /\ settled.req.kind = "update"
  /\ settled.outcome = "rejected"

\* C9: when a listener of transform or of the post event throws, the request
\* still resolves with the handler's response, every listener runs, no fail
\* event is emitted and what the request appended stays in the log.
C9_ObserverErrorsIgnored ==
  (settled.seen.obsThrew /\ settled.seen.thrown = NoError)
    => /\ settled.outcome = "resolved"
       /\ settled.res = PublicResult(settled.req, settled.seen.response)
       /\ \A i \in 1..Len(settled.seen.evs) :
            settled.seen.evs[i].ev # "before" =>
              settled.seen.evs[i].ran = NumObs
       /\ Named(settled.seen.evs, "fail") = <<>>
       /\ \A i \in 1..Len(settled.seen.appended) :
            Contains(log, settled.seen.appended[i])

\* C9 witness: an update that did the work resolves although a listener of
\* transform or update threw.
C9_Witness ==
  /\ ResolvedUpdate
  /\ settled.seen.obsThrew
  /\ settled.seen.appended = <<settled.req.tid>>

\* C10: until activation completes, every call made stays suspended: none
\* has checked the log, none is queued or processed, nothing is recorded.
C10_NothingBeforeActivation ==
  ~activated =>
    /\ Len(waiting) = ncalls
    /\ queue = <<>>
    /\ cur = NoRequest
    /\ phase = "idle"
    /\ started = <<>>
    /\ log = <<>>
    /\ direct.pc \in {"idle", "waiting"}
    /\ settled = NotSettled

\* C10 witness: an update and a pull were called before activation.
C10_Witness ==
  /\ ~activated
  /\ \E i \in DOMAIN waiting : waiting[i].kind = "update"
  /\ \E i \in DOMAIN waiting : waiting[i].kind = "pull"

\* The listeners of the before<Kind> emission invoked so far, as listener
\* indices in the order of invocation.
BeforeInvoked(s) ==
  LET b == Named(s.evs, "before") IN [i \in 1..Len(b) |-> b[i].t]

\* C11: before<Kind> listeners are invoked one at a time in registration
\* order; while one is pending no later listener and not the protected handler
\* is invoked; the handler runs only after every before listener fulfilled.
C11_BeforeInSeries ==
  /\ \A i \in 1..Len(BeforeInvoked(seen)) : BeforeInvoked(seen)[i] = i
  /\ phase = "before" =>
       /\ Len(BeforeInvoked(seen)) = bi
       /\ ~seen.invoked
  /\ seen.invoked =>
       /\ Len(BeforeInvoked(seen)) = NumBefore
       /\ seen.thrown.src # "before"
  /\ settled.seen.invoked =>
       BeforeInvoked(settled.seen) = [i \in 1..NumBefore |-> i]

\* C11 witness: the last beforePull listener is pending after the earlier
\* ones fulfilled; _pull has not been invoked.
C11_Witness ==
  /\ phase = "before"
  /\ cur.kind = "pull"
  /\ bi = NumBefore
  /\ NumBefore >= 2
  /\ ~seen.invoked

\* C12: whatever update, sync, rollback and rebase operations are performed
\* on the fork, the parent's cache contents, log, stored transforms and
\* inverse operations are those of a parent on which only its own operations
\* ran.
C12_ForkIsolation == sources.parent = alone

\* C12 witness: the fork, holding transforms of its own that changed its
\* cache, has just been rebased onto a parent that holds transforms.
C12_Witness ==
  /\ forked
  /\ last.op = "rebase"
  /\ last.base # <<>>
  /\ last.local # <<>>
  /\ sources.fork.records # sources.parent.records
  /\ sources.parent.log # <<>>

\* The last step was a rebase that found at least one new base transform.
RebasedOntoBase == last.op = "rebase" /\ last.base # <<>>

\* C13: during a rebase with at least one new base transform, the fork's
\* local transforms are re-applied in their original log order, oldest first.
C13_ReappliedInLogOrder ==
  RebasedOntoBase => last.reapplied = Ids(last.local)

\* The fork before the i-th undo of the last rebase.
BeforeUndo(i) == IF i = 1 THEN last.before ELSE last.undoStates[i - 1]

\* C14 (as stated): during a rebase with at least one new base transform,
\* each local transform is undone in reverse log order with its stored
\* inverse operations, and is removed from the fork's log at that point.
C14_UndoneAndUnlogged ==
  RebasedOntoBase =>
    \A i \in 1..Len(last.undone) :
      /\ last.undone[i] = last.local[Len(last.local) + 1 - i].id
      /\ ~Contains(last.undoStates[i].log, last.undone[i])

\* C14 (amended): during a rebase with at least one new base transform, each
\* local transform is undone in reverse log order by applying its stored
\* inverse operations to the fork's cache, and its stored transform and
\* inverse operations are forgotten at that point; the fork's transform log
\* is not changed, during the rebase or by it.
C14_UndoneNewestFirst ==
  RebasedOntoBase =>
    /\ Len(last.undone) = Len(last.local)
    /\ \A i \in 1..Len(last.undone) :
         LET id == last.undone[i] IN
         /\ id = last.local[Len(last.local) + 1 - i].id
         /\ id \in DOMAIN BeforeUndo(i).inverses
         /\ last.undoStates[i].records =
              ApplyOperations(BeforeUndo(i).records, BeforeUndo(i).inverses[id])
         /\ id \notin DOMAIN last.undoStates[i].transforms
         /\ id \notin DOMAIN last.undoStates[i].inverses
         /\ last.undoStates[i].log = last.before.log
    /\ sources.fork.log = last.before.log

\* C14 witness: a rebase onto new base transforms of a fork that holds two
\* local transforms.
C14_Witness ==
  /\ RebasedOntoBase
  /\ Len(last.local) >= 2
  /\ last.undoStates[2].records # last.before.records

\* C15: after a rebase the fork's cache equals the replay, over the cache
\* state the fork started from, of the parent's transforms logged since the
\* fork point followed by the fork's local transforms, each in log order.
C15_RebaseEquivalence ==
  RebasedOntoBase =>
    sources.fork.records =
      ApplyOperations(last.startedFrom, Flattened(last.base \o last.local))

\* The cache state a source started from: empty for the parent, the cache of
\* the base for a fork.
BaseState(who) == IF who = "parent" THEN NoFields ELSE forkBase

\* C16: after rollback(id) the log holds exactly the entries up to and
\* including id, every listener of the log's rollback event has received the
\* removed ids in log order (oldest first), and the cache is the state reached
\* by the transforms up to and including id.
C16_Rollback ==
  last.op = "rollback" =>
    LET s == sources[last.who]
        b == last.before
    IN /\ s.log = SubSeq(b.log, 1, IndexOf(b.log, last.tid))
       /\ LogIds(b.log) = LogIds(s.log) \o last.removed
       /\ \A i \in 1..Len(last.received) : last.received[i] = last.removed
       /\ s.records =
            ApplyOperations(BaseState(last.who),
                            Flattened(StoredTransforms(b, LogIds(s.log))))

\* The ids _applyTransform has stored on a source and no rollback or rebase
\* has cleared.
AppliedIds(s) == DOMAIN s.transforms

LoggedIds(s) == {s.log[i].id : i \in 1..Len(s.log)}

\* C18: in every state reached by update, sync, rollback and rebase, the
\* transforms _applyTransform has applied to a source's cache are exactly
\* those whose ids are in that source's log, and the cache is the fold of the
\* logged transforms, in log order, over the base state.
C18_CacheLogAgreement ==
  nmerges = 0 =>
    \A who \in {"parent", "fork"} :
      Exists(who) =>
        /\ AppliedIds(sources[who]) = LoggedIds(sources[who])
        /\ sources[who].records =
             ApplyOperations(BaseState(who),
                             Flattened(allTransforms(sources[who])))

\* The operations of the fork's transforms a merge selects, in log order.
SelectedOps == Flattened(MergeSelected(sources.fork, last.since))

\* C19: one merge appends exactly one entry, under a fresh id, to the
\* receiver's log and emits exactly one transform event; the transform it
\* applies through update carries the operations of the fork's transforms
\* since opts.sinceTransformId (or of all of them), concatenated in log order
\* (coalesced unless coalesce is false).
C19_MergeIsOneUpdate ==
  last.op = "merge" =>
    /\ ~Contains(last.logBefore, last.id)
    /\ sources.parent.log =
         Append(last.logBefore, [id |-> last.id, by |-> "update"])
    /\ last.events = 1
    /\ last.id \in DOMAIN sources.parent.transforms
    /\ sources.parent.transforms[last.id] =
         IF last.coalesce THEN coalesceRecordOperations(SelectedOps)
         ELSE SelectedOps

\* A merge since a given transform of a fork that holds at least two later
\* transforms.
C19_Witness ==
  /\ last.op = "merge"
  /\ last.since # 0
  /\ Len(MergeSelected(sources.fork, last.since)) >= 2
  /\ Len(sources.parent.log) = Len(last.logBefore) + 1

\* A deep comparison counts an attribute whose value is undefined as absent.
Defined(rs) ==
  [i \in DOMAIN rs |->
     [rs[i] EXCEPT !.attributes =
        [a \in {b \in DOMAIN rs[i].attributes :
                  rs[i].attributes[b] # Undefined} |-> rs[i].attributes[a]]]]

\* C17: applying an operation sequence to a cache state S0 and then the
\* inverse operations recorded for it restores S0 exactly.
C17_InverseRoundTrip ==
  trial.stage = "patched" => Defined(trial.records) = Defined(trial.start)

\* Does every addRecord of ops add a record that is absent at that point,
\* starting from rs?
RECURSIVE AddsOnlyAbsent(_, _)
AddsOnlyAbsent(rs, ops) ==
  IF ops = <<>> THEN TRUE
  ELSE /\ Head(ops).op = "addRecord" => ~HasRecord(rs, TargetOf(Head(ops)))
       /\ AddsOnlyAbsent(ApplyOperation(rs, Head(ops)), Tail(ops))

Applied(kind) == store.did.op = "update" /\ store.did.operation.op = kind

\* The identity the operation just applied was aimed at.
Target == TargetOf(store.did.operation)

Occurrences(identities, identity) ==
  Cardinality({i \in 1..Len(identities) : identities[i] = identity})

\* C21: an addToRelatedRecords applied a second time leaves the records as
\* the first application left them, with the related identity exactly once
\* in the relationship.
C21_AddToRelatedIdempotent ==
  (Applied("addToRelatedRecords") /\ store.did.again) =>
    /\ store.records = store.did.before
    /\ Occurrences(RelatedRecords(store.records[Target],
                                  store.did.operation.relationship),
                   store.did.operation.relatedRecord) = 1

\* addToRelatedRecords applied twice in a row to a record that holds another
\* related record as well.
C21_Witness ==
  /\ Applied("addToRelatedRecords")
  /\ store.did.again
  /\ Len(RelatedRecords(store.records[Target],
                        store.did.operation.relationship)) = 2

\* The operation just applied was aimed at an identity without a record.
OnAbsent == ~HasRecord(store.did.before, Target)

\* C22: removeFromRelatedRecords aimed at an identity without a record leaves
\* a shell record whose named relationship holds an empty list.
C22_RemoveFromRelatedCreatesShell ==
  (Applied("removeFromRelatedRecords") /\ OnAbsent) =>
    /\ HasRecord(store.records, Target)
    /\ store.records[Target] =
         SetRelated(cloneRecordIdentity(Target),
                    store.did.operation.relationship, <<>>)

\* C23: removeRecord and removeFromRelatedRecords create no record: aimed at
\* an identity without a record they leave it without one, and no identity
\* gains a record.
C23_RemovalCreatesNothing ==
  (Applied("removeRecord") \/ Applied("removeFromRelatedRecords")) =>
    /\ OnAbsent => ~HasRecord(store.records, Target)
    /\ DOMAIN store.records \subseteq DOMAIN store.did.before

\* A removeFromRelatedRecords aimed at an identity without a record, in a
\* cache that holds another record.
C23_Witness ==
  /\ Applied("removeFromRelatedRecords")
  /\ OnAbsent
  /\ store.records # NoFields

Members == {"keys", "attributes", "relationships"}

\* The member an operation writes, and the name it writes it under.
WrittenMember(o) ==
  CASE o.op = "replaceKey" -> "keys"
    [] o.op = "replaceAttribute" -> "attributes"
    [] OTHER -> "relationships"

WrittenName(o) ==
  CASE o.op = "replaceKey" -> o.key
    [] o.op = "replaceAttribute" -> o.attribute
    [] OTHER -> o.relationship

\* Does the record hold what the operation wrote?
HoldsWritten(record, o) ==
  /\ WrittenName(o) \in DOMAIN record[WrittenMember(o)]
  /\ CASE o.op \in {"replaceKey", "replaceAttribute"} ->
            record[WrittenMember(o)][WrittenName(o)] = o.value
       [] o.op = "addToRelatedRecords" ->
            recordsInclude(record.relationships[o.relationship],
                           o.relatedRecord)
       [] o.op = "replaceRelatedRecords" ->
            record.relationships[o.relationship] = o.relatedRecords
       [] o.op = "replaceRelatedRecord" ->
            record.relationships[o.relationship] = o.relatedRecord

\* Do two records agree on every key, attribute and relationship other than
\* the one the operation writes?
AgreeElsewhere(b, a, o) ==
  \A m \in Members :
    \A n \in (DOMAIN b[m]) \cup (DOMAIN a[m]) :
      (m # WrittenMember(o) \/ n # WrittenName(o)) =>
        /\ n \in DOMAIN b[m]
        /\ n \in DOMAIN a[m]
        /\ b[m][n] = a[m][n]

Writes ==
  {"replaceKey", "replaceAttribute", "addToRelatedRecords",
   "replaceRelatedRecords", "replaceRelatedRecord"}

\* C24: replaceKey, replaceAttribute, addToRelatedRecords,
\* replaceRelatedRecords and replaceRelatedRecord leave a record that holds
\* the written member; aimed at an identity without a record it holds nothing
\* else than type and id, aimed at an existing record every other key,
\* attribute and relationship is as it was.
C24_WritesOneMember ==
  (store.did.op = "update" /\ store.did.operation.op \in Writes) =>
    /\ HasRecord(store.records, Target)
    /\ IdentityOf(store.records[Target]) = Target
    /\ HoldsWritten(store.records[Target], store.did.operation)
    /\ AgreeElsewhere(IF OnAbsent THEN cloneRecordIdentity(Target)
                      ELSE store.did.before[Target],
                      store.records[Target], store.did.operation)

\* A replaceKey on a record that holds an attribute and a relationship.
C24_Witness ==
  /\ Applied("replaceKey")
  /\ ~OnAbsent
  /\ DOMAIN store.did.before[Target].attributes # {}
  /\ DOMAIN store.did.before[Target].relationships # {}

\* Is the record `merged` the record `incoming` laid over the record
\* `current`?
LaidOver(merged, current, incoming) ==
  /\ IdentityOf(merged) = IdentityOf(incoming)
  /\ \A m \in Members :
       /\ DOMAIN merged[m] = (DOMAIN current[m]) \cup (DOMAIN incoming[m])
       /\ \A n \in DOMAIN incoming[m] : merged[m][n] = incoming[m][n]
       /\ \A n \in (DOMAIN current[m]) \ (DOMAIN incoming[m]) :
            merged[m][n] = current[m][n]

\* C25: updateRecord stores the incoming record merged over the current one:
\* a member only the current record has is kept, a member of the incoming
\* record is added or overwritten; without a current record the stored
\* record is the incoming one.
C25_UpdateRecordMerges ==
  Applied("updateRecord") =>
    /\ HasRecord(store.records, Target)
    /\ IF OnAbsent
         THEN store.records[Target] = store.did.operation.record
         ELSE LaidOver(store.records[Target], store.did.before[Target],
                       store.did.operation.record)

\* An update that overwrites one attribute of the current record and keeps
\* another.
C25_Witness ==
  /\ Applied("updateRecord")
  /\ ~OnAbsent
  /\ \E n \in DOMAIN store.did.before[Target].attributes :
       n \notin DOMAIN store.did.operation.record.attributes
  /\ \E n \in DOMAIN store.did.before[Target].attributes :
       /\ n \in DOMAIN store.did.operation.record.attributes
       /\ store.did.before[Target].attributes[n]
            # store.did.operation.record.attributes[n]

\* The identities of a list that have a record, in the order of the list.
Known(recs, identities) ==
  SelectSeq(identities, LAMBDA i : HasRecord(recs, i))

\* C26: a query by a list of identities returns exactly the records that
\* exist, in the order of the list, and drops the identities without a
\* record; once those records are removed the same query returns the empty
\* list.
C26_QueryByIdentities ==
  store.did.op = "query" =>
    /\ Len(store.did.result) = Len(Known(store.records, store.did.identities))
    /\ \A j \in 1..Len(store.did.result) :
         /\ IdentityOf(store.did.result[j])
              = Known(store.records, store.did.identities)[j]
         /\ store.did.result[j] = store.records[IdentityOf(store.did.result[j])]
    /\ store.did.removed => store.did.result = <<>>

\* A query of two identities in an order other than the one they were added
\* in, both with a record.
C26_Witness ==
  /\ store.did.op = "query"
  /\ store.did.identities = <<Io, Jupiter>>
  /\ Len(store.did.result) = 2

\* A query that repeats the identities of a removal that found a record.
C26_AfterRemoval ==
  /\ store.did.op = "query"
  /\ store.did.removed
  /\ store.did.found # <<>>

\* A query that drops an identity without a record.
C26_Dropping ==
  /\ store.did.op = "query"
  /\ Len(store.did.identities) = 2
  /\ Len(store.did.result) = 1

\* C27: after an addRecord, updateRecord or replaceKey that leaves the record
\* with keys[k] = v, the key map resolves (type, k, v) to the id of the
\* record, also when replaceKey created the record.
C27_KeyMapResolves ==
  (Applied("addRecord") \/ Applied("updateRecord") \/ Applied("replaceKey")) =>
    /\ HasRecord(store.records, Target)
    /\ \A k \in DOMAIN store.records[Target].keys :
         keyToId(store.keyMap, Target.type, k, store.records[Target].keys[k])
           = Target.id

\* A replaceKey that created the record.
C27_Witness ==
  /\ Applied("replaceKey")
  /\ OnAbsent
  /\ store.did.operation.key \in DOMAIN store.records[Target].keys

\* Has every relationship edge of every record its entry in the index of the
\* record it points to?
EdgesIndexed ==
  \A a \in DOMAIN store.records :
    \A i \in 1..Len(EdgesOf(store.records, a)) :
      Indexed(store.inverse, <<EdgesOf(store.records, a)[i]>>)

\* Is the index entry of every record the relationships point to as it was
\* before they were added?
EntriesAsBefore ==
  \A i \in 1..Len(store.did.relationships) :
    getInverseRelationshipsSync(store.inverse,
                                store.did.relationships[i].relatedRecord)
      = getInverseRelationshipsSync(store.did.before,
                                    store.did.relationships[i].relatedRecord)

\* C28: in every state of the cache each relationship edge from a record A to
\* a record B has an entry in the index of B that points back to A with that
\* relationship, and adding a set of inverse relationships and then removing
\* the same set leaves each affected index entry as it was before.
C28_InverseIndex ==
  /\ EdgesIndexed
  /\ store.did.op = "removeInverse" => EntriesAsBefore

\* The round trip of relationships none of which was in the index before.
C28_FreshRoundTrip ==
  (store.did.op = "removeInverse" /\ store.did.fresh) => EntriesAsBefore

Elements(sequence) == {sequence[i] : i \in 1..Len(sequence)}

\* The update added one record and the server answered with a resource whose
\* remote id or attributes are not the ones sent.
AddedWithChanges ==
  /\ Len(remote.operations) = 1
  /\ remote.operations[1].op = "addRecord"
  /\ Len(remote.responses) = 1
  /\ remote.responses[1].body
  /\ \/ RemoteIdDiffers(remote.operations[1].record, remote.responses[1])
     \/ \E a \in Elements(AttributeNames) :
          AttributeDiffers(remote.operations[1].record, remote.responses[1], a)

\* The operations the claim expects in the follow-on transform.
ExpectedFollowOn ==
  LET sent == remote.operations[1].record
      response == remote.responses[1]
  IN {ReplaceKeyOp(IdentityOf(sent), "remoteId", response.id) :
        x \in {y \in {1} : RemoteIdDiffers(sent, response)}}
     \cup {ReplaceAttributeOp(IdentityOf(sent), a, response.attributes[a]) :
             a \in {b \in Elements(AttributeNames) :
                      AttributeDiffers(sent, response, b)}}

\* C29: when an update adds a record and the response carries a remote id or
\* attribute values other than the ones sent, the transform event of the
\* requested transform comes first, the event of a follow-on transform with
\* the replaceKey('remoteId', serverId) and the attribute differences comes
\* second, and both have been emitted when the promise of update resolves.
C29_FollowOnTransform ==
  AddedWithChanges =>
    /\ remote.events # <<>> => remote.events[1] = remote.operations
    /\ Len(remote.events) > 1 =>
         /\ Len(remote.events) = 2
         /\ Elements(remote.events[2]) = ExpectedFollowOn
         /\ Len(remote.events[2]) = Cardinality(ExpectedFollowOn)
    /\ remote.outcome = "resolved" => Len(remote.events) = 2

\* The update of an added record has resolved after a response that changed
\* the remote id and an attribute.
C29_Witness ==
  /\ AddedWithChanges
  /\ remote.outcome = "resolved"
  /\ RemoteIdDiffers(remote.operations[1].record, remote.responses[1])
  /\ Cardinality(ExpectedFollowOn) > 1

\* Does the transform need more requests than a limit that is set allows?
OverLimit ==
  \/ /\ remote.maxRequestsPerTransform # 0
     /\ Len(remote.operations) > remote.maxRequestsPerTransform
  \/ /\ remote.maxRequests # 0
     /\ Len(remote.operations) > remote.maxRequests

\* C30: when a transform needs more requests than maxRequestsPerTransform or
\* defaultTransformOptions.maxRequests allows (the more restrictive of the
\* two when both are set), update rejects with TransformNotAllowed, no
\* request is dispatched for the transform and no transform is logged.
C30_RequestLimit ==
  (remote.stage # "idle" /\ OverLimit) =>
    /\ remote.outcome = "TransformNotAllowed"
    /\ remote.fetched = <<>>
    /\ remote.logged = <<>>
    /\ remote.events = <<>>

\* A transform refused by the more restrictive of two limits, which the
\* other limit would have let pass.
C30_Witness ==
  /\ remote.outcome = "TransformNotAllowed"
  /\ remote.maxRequestsPerTransform = 2
  /\ remote.maxRequests = 1
  /\ Len(remote.operations) = 2

\* A transform within the limits is not refused.
C30_WithinLimit ==
  (remote.stage # "idle" /\ ~OverLimit) =>
    remote.outcome # "TransformNotAllowed"

\* Did an update before the current one time out?
TimedOutBefore ==
  \E i \in 1..Len(remote.history) : remote.history[i] = "NetworkError"

\* C31: an update whose response does not arrive within the timeout rejects
\* with NetworkError, and the response that arrives after the timeout commits
\* nothing: the update has emitted no transform event and logged no
\* transform, and the update called next sends all its requests, emits and
\* logs its own transforms and resolves as it would have otherwise.
C31_TimeoutCommitsNothing ==
  /\ remote.outcome = "NetworkError" =>
       /\ remote.stage = "settled"
       /\ InFlight(remote)
       /\ remote.events = <<>>
       /\ remote.logged = <<>>
       /\ remote.late # "none"
  /\ (TimedOutBefore /\ remote.outcome = "resolved") =>
       /\ remote.fetched = remote.operations
       /\ Len(remote.responses) = Len(remote.operations)
       /\ remote.events = RemoteResult(remote.operations, remote.responses)
       /\ Len(remote.logged) = Len(remote.events)

\* The update after one that timed out has resolved with two transforms,
\* and the late response has arrived.
C31_Witness ==
  /\ TimedOutBefore
  /\ remote.late = "arrived"
  /\ remote.outcome = "resolved"
  /\ Len(remote.events) = 2

\* The late response has arrived while the update that timed out is the
\* last one called.
C31_LateAfterReject ==
  /\ remote.outcome = "NetworkError"
  /\ remote.late = "arrived"

Answered == trial.stage \in {"update", "pull"}

\* C32: the full response of a request carries a sources member only when
\* options.includeSources is set on the request, for update and for pull
\* alike and whatever the number of before<Kind> listeners.
C32_SourcesOnlyIfAsked ==
  Answered =>
    ("sources" \in DOMAIN trial.fullResponse <=> trial.options.includeSources)

\* The same for update alone.
C32_UpdateSourcesOnlyIfAsked ==
  trial.stage = "update" =>
    ("sources" \in DOMAIN trial.fullResponse <=> trial.options.includeSources)

\* What pull does: the member is there if and only if a beforePull listener
\* is registered.
C32_PullSourcesIfListeners ==
  trial.stage = "pull" =>
    ("sources" \in DOMAIN trial.fullResponse <=> trial.otherResponses # <<>>)

\* Does the source hold a stored transform for the id?
Stored(s, id) == id \in DOMAIN s.transforms

\* Are the transforms those stored for the ids, in the order of the ids?
StoredFor(s, ts, ids) ==
  /\ Len(ts) = Len(ids)
  /\ \A i \in 1..Len(ids) :
       /\ Stored(s, ids[i])
       /\ ts[i] = Transform(ids[i], s.transforms[ids[i]])
       /\ ts[i] = Presented(ids[i]) \/ ids[i] \notin ForkTransformIds

\* C33: transformsSince(id) returns the stored transforms of exactly the log
\* ids strictly after id, allTransforms() those of every log id, both in log
\* order and without a missing entry, in every state reached by update,
\* sync, rollback, truncate, clear and rebase.
C33_StoredForEveryLogId ==
  \A who \in {"parent", "fork"} :
    /\ StoredFor(sources[who], allTransforms(sources[who]),
                 LogIds(sources[who].log))
    /\ \A i \in 1..Len(sources[who].log) :
         StoredFor(sources[who],
                   transformsSince(sources[who], sources[who].log[i].id),
                   SubSeq(LogIds(sources[who].log), i + 1,
                          Len(sources[who].log)))

\* The log of a fork made from a parent with a log was truncated and still
\* holds an id.
C33_Witness ==
  /\ last.op = "truncate"
  /\ last.who = "fork"
  /\ last.removed # <<>>
  /\ sources.fork.log # <<>>
  /\ sources.fork.forkPoint # 0

\* C34: rebase changes nothing when the base has no transforms after the
\* fork point, a rebase that does apply base transforms sets forkPoint to
\* the head of the base's log, and so a rebase called right after a rebase
\* leaves the fork's cache, log, stored transforms and forkPoint as the
\* first call left them.
C34_RebaseTwice ==
  last.op = "rebase" =>
    /\ last.base = <<>> => sources.fork = last.before
    /\ last.base # <<>> =>
         /\ sources.fork.forkPoint = LogHead(sources.parent.log)
         /\ sources.fork.forkPoint # 0
    /\ last.again => /\ last.base = <<>>
                     /\ sources.fork = last.before

\* A rebase right after a rebase, on a fork that holds transforms of its
\* base and a transform of its own.
C34_Witness ==
  /\ last.op = "rebase"
  /\ last.again
  /\ sources.fork.log # <<>>
  /\ \E id \in DOMAIN sources.fork.transforms :
       ~Contains(sources.fork.log, id)

\* C35: a fork starts with an empty log of its own and with forkPoint equal
\* to the head of the base's log at that moment (undefined, 0, when that log
\* is empty), and a rebase of a fork whose forkPoint is undefined applies all
\* the transforms of the base.
C35_ForkPoint ==
  /\ last.op = "fork" =>
       /\ sources.fork.log = <<>>
       /\ sources.fork.transforms = NoFields
       /\ sources.fork.forkPoint = LogHead(sources.parent.log)
       /\ sources.parent.log = <<>> <=> sources.fork.forkPoint = 0
  /\ (last.op = "rebase" /\ last.before.forkPoint = 0) =>
       /\ last.base = allTransforms(sources.parent)
       /\ Ids(last.base) = LogIds(sources.parent.log)
       /\ \A i \in 1..Len(last.base) :
            Stored(sources.fork, last.base[i].id)

\* A fork made from a base with an empty log has been rebased onto two
\* transforms of the base, with a transform of its own.
C35_Witness ==
  /\ last.op = "rebase"
  /\ last.before.forkPoint = 0
  /\ Len(last.base) = 2
  /\ sources.fork.log # <<>>

\* C36: the requests of one JSON:API transform are dispatched one at a time
\* in operation order, request i+1 only after the response to request i has
\* been received, and the data of the resolved update lists the results in
\* operation order.
C36_RequestsInSeries ==
  /\ Len(remote.fetched) <= Len(remote.operations)
  /\ \A i \in 1..Len(remote.fetched) :
       remote.fetched[i] = remote.operations[i]
  /\ Len(remote.responses) <= Len(remote.fetched)
  /\ Len(remote.fetched) <= Len(remote.responses) + 1
  /\ (remote.outcome = "resolved" /\ Len(remote.operations) > 1) =>
       /\ remote.fetched = remote.operations
       /\ Len(remote.data) = Len(remote.operations)
       /\ \A i \in 1..Len(remote.operations) :
            remote.data[i] = ResultOf(remote.operations[i],
                                      remote.responses[i])

\* An update of two operations has resolved with two different results: the
\* record the server returned for the first, nothing for the second.
C36_Witness ==
  /\ remote.outcome = "resolved"
  /\ Len(remote.operations) = 2
  /\ remote.data[1] # NoResult
  /\ remote.data[2] = NoResult

\* The second request of a transform is in flight, the first one answered.
C36_SecondInFlight ==
  /\ remote.stage = "requesting"
  /\ Len(remote.fetched) = 2
  /\ Len(remote.responses) = 1

\* C37: sync(t) hands the transform it was given to _sync; on a MemorySource
\* sync(t) for an id that is not in the log applies the operations of t to
\* the cache, stores t and its inverse operations and appends t.id to the
\* log before it resolves, and sync(t) for an id that is in the log changes
\* neither the cache, the stored transforms nor the log.
C37_SyncAppliesOnce ==
  last.op = "sync" =>
    LET before == last.before
        after == sources.fork
        ops == TransformOps(last.tid)
    IN /\ (~Contains(before.log, last.tid) /\ ~CacheUpdateThrows(ops)) =>
            /\ after.records = ApplyOperations(before.records, ops)
            /\ Stored(after, last.tid)
            /\ after.transforms[last.tid] = ops
            /\ after.inverses[last.tid]
                 = InverseOperations(before.records, ops)
            /\ LogIds(after.log) = Append(LogIds(before.log), last.tid)
            /\ after.forkPoint = before.forkPoint
       /\ Contains(before.log, last.tid) => after = before

\* A sync of a transform whose id is in the log of a fork that holds two
\* transforms, after a sync that applied one of them.
C37_Witness ==
  /\ last.op = "sync"
  /\ Contains(last.before.log, last.tid)
  /\ Len(sources.fork.log) = 2
  /\ \E i \in 1..2 : sources.fork.log[i].by = "sync"

\* A sync has applied a transform that changes a record the fork held.
C37_Applied ==
  /\ last.op = "sync"
  /\ ~Contains(last.before.log, last.tid)
  /\ sources.fork.records # last.before.records
  /\ last.before.records # forkBase
  /\ sources.fork.inverses[last.tid] # <<>>

\* The ids of a list.
Listed(ids) == {ids[i] : i \in 1..Len(ids)}

\* Has source `after` the stored transform and inverse operations that
\* source `before` had for id?
Kept(before, after, id) ==
  /\ id \in DOMAIN after.transforms
  /\ id \in DOMAIN after.inverses
  /\ after.transforms[id] = before.transforms[id]
  /\ after.inverses[id] = before.inverses[id]

C39_Truncated ==
  /\ last.op = "truncate"
  /\ Len(last.removed) = 1
  /\ Len(sources[last.who].log) = 1
  /\ sources[last.who].records # NoFields

\* C40: after base.merge(fork) has resolved and fork.rebase() is called with
\* nothing in between, the cache of the fork equals the cache of the base,
\* whatever the local transforms of the fork.
C40_MergeRebaseConverge ==
  (last.op = "rebase" /\ last.afterMerge) =>
    sources.fork.records = sources.parent.records

\* Has a rollback or a rebase changed the source while its update was in
\* flight?
Interfered == trial.stage = "landed" /\ trial.interfered

\* C38: when rollback() or rebase() runs on a MemorySource while an update of
\* T is in flight (T applied to the cache, T.id not yet in the log), then
\* once T.id is logged the cache equals the replay of the transforms in log
\* order: the effect of T is not lost and is not ordered before the
\* transforms that precede it in the log.
C38_ReplayOfLog ==
  (Interfered /\ trial.sound /\ last.op = "logged") =>
    sources[trial.who].records = Replay(trial.who, sources[trial.who])

\* Without interference the update in flight lands on the replay of the log.
C38_Undisturbed ==
  (trial.stage = "landed" /\ ~trial.interfered /\ trial.sound
     /\ last.op = "logged") =>
    sources[trial.who].records = Replay(trial.who, sources[trial.who])


====
